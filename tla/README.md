# A verification of the UCX tag performance tester

This directory holds TLA+ models of the performance tester in `src/`, the TLC
configurations that check them on small instances, and proofs that the TLA+
proof system (TLAPS) checks for every instance.

    tlc -config PerftestNominal.cfg Perftest.tla      # one of the runs below
    tlapm PerftestProofs.tla                          # one of the proof modules

## 1. The system

A *server* (`dyad_ucx_perftest_server`, one process) sends data to *clients*
(`dyad_ucx_perftest_client`, one process per MPI rank), many times, so that the
time of a UCX tag transfer can be measured.  All processes are single-threaded.

| Component | State | Operations | Talks to |
|---|---|---|---|
| `Server` (server.cpp) | `m_connections_active`, the data buffer | `start`, `run`, `single_run`, `check_active_connections`, `gen_data`, `shutdown` | clients through `OOBComm`, UCX through its backend |
| `Client` (client.cpp) | the iteration, a buffer per iteration | `start`, `run`, `single_run`, `shutdown` | the server through `OOBComm`, the other clients through `MPI_Barrier`, UCX through its backend |
| `OOBComm` (oob_comm.cpp) | one ZMQ socket (`REP` or `REQ`), open or not | `send`, `recv`, `shutdown` | the ZMQ peer |
| `AbstractBackend` (abstract_backend.cpp) | UCX context, worker and address, mapped buffer, remote address, tag, `m_initialized` | `init`, `warmup`, `get_net_buf`, `return_net_buf`, `set_remote_addr`, `set_tag`, `shutdown`, `ucx_request_wait` | UCX |
| `TagBackend` (tag_backend.cpp) | the endpoint | `establish_connection`, `send`, `recv`, `comm_wait`, `close_connection` | UCX |
| Base64 codec (base64.c) | none | encode, decode, the two length functions | called by `Client` and `Server` for worker addresses |
| Main programs | the arguments: `data_size`, `num_connections`, `num_iters` | command line, `init`, construction, start, run, shutdown, destruction, catch clauses, `MPI_Finalize` | all of the above |
| Build options (CMakeLists.txt) | none | `OPT1`, `OPT2` | compiled into the backend |
| Logging, Caliper, launch scripts, notebook | none | | not part of the protocol |

How a run goes.  Every client registers (type 0) and waits for `ok`; then it
waits in an MPI barrier for the other clients.  `Server::start` takes
registrations until every connection is active.  In each iteration a client
sends a request (type 1) with its tag and its base64-encoded worker address and
probes its worker until data with its tag arrives; the server connects to that
address, sends the data with that tag, waits for the send to complete, closes
the endpoint *with force* and replies `iter_ok`.  After its last iteration a
client sends a farewell (type 2), does not wait for the answer and enters
`MPI_Finalize`, which it leaves together with all other clients.  The server exits
when no connection is active.

What is hard about it:

* *Interleaving.*  Requests and registrations arrive in any order.  A request
  that reached `Server::start` would end the server; only the barrier prevents it.
* *Two channels.*  Data comes over UCX, acknowledgements over ZMQ.  The tag is
  the same in every iteration, so a message left over would be taken for the
  next one.
* *Silent failures.*  `OOBComm::send` ignores ZMQ's verdict; a send out of turn
  vanishes.
* *Loss.*  A forced close may discard an eager message whose send is complete; a
  client's socket that is destroyed may discard the farewell, the server's the
  replies that ZMQ has only queued.
* *No timeouts.*  The probe loop, `zstr_recv`, the barrier and `MPI_Finalize` wait
  for ever.
* *Deaths.*  A process may die at any step; a peer learns it from UCX or not at all.
* *Carried state.*  The server's backend keeps tag, address and endpoint in
  fields from one request to the next.
* *Lengths.*  The codec writes into blocks sized by separate functions; size_t
  differences end its loops, and text length, padding and byte count must agree.
* *Sizes.*  A block is allocated in one function, or mapped with a fixed length, and
  filled in another with a length from the command line or from another process;
  `data_size` is optional and has no initial value.
* *Start-up.*  `init` and the constructors run outside the try block, and the warmup
  of an `OPT_2` build sends a message from a process to itself.
* *Ownership.*  UCX objects and heap blocks are raw pointers handed between
  functions; the warmup makes two of them name one address; what is freed
  depends on the build and on the mode.

What makes each part correct:

* `OOBComm`: a client's conversation is never in two places at once and never
  lost while both sockets are open; each request is answered once, to its client,
  before the next; no send is refused.
* `Server` and `Client`: no protocol exception when the command lines match;
  a connection is closed only by its own client; the server ends only when
  everybody was served.
* The backend during a run: a request is served with its own address and tag; what
  is under way to a client belongs to its current iteration.
* The backend's life: nothing is used or released wrongly; a transfer leaves
  nothing behind; what UCX works with stays allocated.
* A whole program: no access reaches beyond its block, but in three named cases; a server that was not told a
  size does not serve; the warmup leaves no message and does not wait for itself;
  the program ends, but for two named waits.
* The codec: decoding inverts encoding, and neither writes beyond the block that
  the length functions gave its caller.

## 2. Modules

| Module | What it is |
|---|---|
| `PerftestBase` | ranks, the three request messages, the replies |
| `OOBComm` | the control channel; also a specification of its own (any use by its two sides) |
| `TagBackend` | endpoint, tags and messages in UCX while transfers run; operators only |
| `Perftest` | the composition: server, clients, barrier, channel, backend; properties and the inductive invariant |
| `TransferService` | the abstract specification of the system: join, begin, finish, take, leave, close |
| `Conversation` | the abstract specification of the control channel: ask, hold, reply, receive, leave, close |
| `BackendLifecycle` | one process's resources from constructor to destructor, every build and mode |
| `Programs` | one of the two programs, from command line to end, around `BackendLifecycle`; sizes of blocks; the warmup's message |
| `Base64` | the codec as its two callers use it, on blocks of memory, and RFC 4648 as its reference |
| `OOBCommProofs`, `BackendLifecycleProofs`, `Base64Proofs` | the theorems of the three components; the first has the refinement of `Conversation` |
| `PerftestProofs` | types, channel, fresh peer, the control protocol's invariant, sends in turn |
| `TransferProofs` | transfers, membership, the end of a run, misconfiguration |
| `ServiceProofs` | the refinement of `TransferService`; who owes a probe its message |
| `ProgressProofs` | every step counts; no deadlock, and who is left waiting when something was lost; large messages are kept |
| `ProgramsProofs` | the theorems of `Programs`, and how those of `BackendLifecycle` carry over |

`Perftest` extends `OOBComm` and `TagBackend`: its actions conjoin theirs.  An
operator keeps the name of the function it stands for (`establish_connection`,
`set_tag`, `close_connection`); an action `ServerX` or `ClientX` is the code
from one blocking point to the next.  `spc` and `cpc[c]` say where a process is:

| `spc` | in the code | leaves by |
|---|---|---|
| `start` | `recv` of `Server::start` | `ServerStart`, `ServerThrow` |
| `run` | `recv` of `Server::single_run` | `ServerRequest`, `ServerDisconnect`, `ServerThrow` |
| `establish`, `send`, `comm_wait`, `close`, `reply` | the backend calls of `single_run` and the final `send` | `ServerEstablish`, `ServerPost`, `ServerCommWait`, `ServerClosePeer`, `ServerReply` |
| `shutdown` | after the loop | `ServerShutdown` |
| any of these | a failure (`ServerFail`), or the death of the client that is served (`ServerPeerLost`) | |
| `done`, `threw`, `failed` | exited; ended by an exception of the program itself; ended by anything else | |

| `cpc[c]` | in the code | leaves by |
|---|---|---|
| `start`, `start_recv`, `barrier` | `Client::start` | `ClientStart`, `ClientStarted`, `ClientBarrier` |
| `loop` | head of the loop in `Client::run` | `ClientRequest`, `ClientDisconnect` |
| `probe`, `comm_wait`, `reply` | `single_run` after its `send` | `ClientProbe`, `ClientCommWait`, `ClientReply` |
| `shutdown` | after `Client::run` | `ClientShutdown` |
| `finalize` | `MPI_Finalize` in main | `ClientFinalize` |
| any of these | a failure | `ClientFail` |

A step merges code that no other process can observe part of: the registration
is received, recorded and answered in one step (`ServerAnswer`), because nothing
in between blocks or is shared.  A transfer is not merged: each backend call is a
step.  `served` and the `seq` of a message are history variables; no guard reads
them.

Data is abstracted to what the protocol tells apart.  A worker address and a tag
are the rank of their owner (`get_address(c) = c`: a client's backend is built
with its rank as tag; the addresses of different workers differ).  A reply is its
one key.  An encoded address is a tagged value that decoding undoes, so that using
it undecoded would not work; `Base64` shows that the codec does that.  Data is its
length.

*External.*  ZMQ: a `REQ` socket alternates send and receive, a `REP` socket
receive and send, a call out of turn fails without effect, a reply to a peer
that has gone is dropped.  A request is kept when its sender closes or dies, and a
reply when the server does, unless `LingerDrops`: then what the socket has not sent
yet may be lost with it (zsock_destroy with linger 0, oob_comm.cpp:66).  UCX: a
probe returns a matching message and removes it; an eager send is complete at once,
a rendezvous send when the receiver has fetched the data (`Protocols` says which UCX may choose); a forced close may discard eager
messages (`ForceDiscards`); it may report that a peer has died wherever it is asked
about that peer, and need not.  MPI: a barrier opens when all ranks are in it, and
`MPI_Finalize` is left when all ranks are in it or beyond.

`BackendLifecycle` follows one process.  `live` is the set of resources it
holds, the pointer variables are the code's, and `misuse` records every use or
release of something not held and every acquisition of something already held.  The
function that releases a block is not part of that: `free` and
`ucp_worker_release_address` are one release (section 7).
`options` (any subset of `OPT1`, `OPT2`) and `m_mode` are chosen in `Init`.  Any
UCX call may fail, at the point where the code notices it (`Throw`, `CommFails`,
`Posted`).  `enc_bufs` counts the blocks that `Client::single_run` encodes its
address into: nothing frees them.

`Programs` adds what is around the backend.  `main` says where main is: `parse`,
`backend` (the calls of `init`), `construct`, `try`, or ended before the backend was
of any use (`usage`, `threw`); inside `backend` and `try` the position is the `pc`
of `BackendLifecycle`, whose actions are conjoined.  `positionals` is the number of
positional arguments; `data_size` starts with any value, as the uninitialized
variable does, and is replaced only if the third argument is there.  `own` is the
warmup's message: `WarmupPosts` posts it if the send did not fail and went to the
process's own address, the probe takes it off UCX's list, the wait fetches it, and
UCX may hold back the completion of the send until then (`WarmupSent`).  Without a
message the probe turns for ever (`WarmupProbes`).  `Accesses` lists the bytes of
blocks that the operations under way touch, `Capacity` the length of each block.
The peer and the channel are `Perftest`'s subject; here a process may be asked for a
transfer at any time.

`Base64` is one pass from an address, or from any text, to what the server keeps.
Blocks are functions from offsets, `Unset` where `malloc`'s content is; a write
beyond a block would show as a block that has grown.  One step is one turn of a
loop (`EncodeTriplet`, `DecodeQuartet`) or what follows it (`EncodeEnd`,
`DecodeEnd`); `from` and `to` are the loop's two offsets.  Sizes are taken modulo
`SizeMod`, as `size_t` does.  Shifts and masks are written as `\div`, `*` and `%`
(`sixbits`, `octets`).  The two tables are given by ranges and by inversion.

## 3. Runs

| Run | Module, cfg | Checks |
|---|---|---|
| `oob_comm` | `OOBComm` | `OneConversation` and `Converses` (refinement of `Conversation`) under *any* use of the channel: sends in and out of turn, closes at any time |
| `nominal` | `Perftest`, `PerftestNominal` | no deadlock (`NoDeadlock`), `ProbeHasSource`, `RunCompletes` |
| `faults` | `Perftest`, `PerftestFaults` | `TypeOK`, `ProtocolNeverThrows`, `OneTransferPerIteration`, `NoStalePeer`, `LargeSendsAreHeld`, `DoneMeansAllServed`, `IInv`, `EveryStepCounts`, `EverySendIsTaken`, `ClosedByItsClient` and `ImplementsService` (refinement of `TransferService`) with deaths of server and clients, and losses |
| `lossy` | `Perftest`, `PerftestLossy` | `StuckMeansSettled`, `NothingElseBlocks`, `EverybodySettles` with deaths of clients, and losses |
| `fewer_connections` | `Perftest`, `PerftestFewer` | `MisconfiguredMovesNothing`, a server for three of four clients: no iteration is completed |
| `different_sizes` | `Perftest`, `PerftestSizes` | `MisconfiguredMovesNothing`, a server with less data than its clients expect: no iteration is completed |
| `lifecycle` | `Programs` | `TypeOK`, `NoMisuse`, `TransferLeavesNothing`, `PostedKeepsMemory`, `OwnershipInv` of the backend, `AccessesFit`, `UnsizedServerNeverServes`, `NoLeftover`, `NeverWaitsForItself`, `GoingOnTakesNoMore`, `EveryStepLeadsOn`, `ProgramSettles` of the program, in four builds and two modes |
| `base64` | `Base64` | `InBounds`, `EncodesRfc4648`, `RoundTrip`, `DecodesRfc4648`, `LenientTexts`, `CodecInv`: addresses of 0 to 5 bytes, texts of 0 to 8 characters |
| `address_size` | `Base64`, `Base64AddressSize` | expected violation: section 6 |
| `shutdown_releases`, `local_address`, `opt2_build` | `BackendLifecycle` | expected violations: section 6 |

What the runs of `Perftest` show:

* `ProtocolNeverThrows`, `DoneMeansAllServed`, `ClosedByItsClient`,
  `OneTransferPerIteration`, `NoStalePeer`: see the comment at each definition.
  They hold even when every process may die at any step and closes lose data.
* `EverySendIsTaken`: `OOBComm::send` has no way to tell that ZMQ refused a send.
  None is refused in these programs: each position from which a client sends finds
  its last reply received, and the server acknowledges only with a request in hand.
* `LargeSendsAreHeld`: UCX reads a large message out of the server's one buffer until
  the client has fetched it.  Until then the server is in `comm_wait` for that client,
  with its endpoint open and its request unanswered, even if the client has died.
  Only the server's own end takes it from there.
* `ProbeHasSource`: a client in its endless probe loop is owed a message.
* `RunCompletes` needs the assumption that nothing is discarded and nobody dies.  It
  is not true otherwise: a farewell that is dropped leaves the server waiting, an
  eager message that is dropped leaves its client probing, and a client that
  probes for ever keeps all the others in `MPI_Finalize`.  `EverybodySettles` says
  that these waits, and those for a client that died, are the only ones: the
  system comes to rest, each process ended or in a wait that the definition
  (`ServerSettled`, `ClientSettled`) accounts for by what was lost.  For instance a
  server whose client died with a large send under way may wait for ever, and then
  clients with a request in its queue probe for ever.  A server that another client's
  death ends may take its queued replies with it, and then the client that was just
  served waits in `zstr_recv` for ever (`Unanswered`).  No client waits for the reply
  of a server that lives.
* Why they hold, in three parts.  `ServerCanStep` and `ClientCanStep` list what each
  process waits for, position by position, and `NothingElseBlocks` ties that list
  to `ENABLED`.  `EveryStepCounts` gives each client a number that no step lowers,
  that some client's step raises unless the server ends, and that is bounded: no
  behaviour goes round in a circle.  `NoDeadlock` and `StuckMeansSettled` say what a
  state looks like in which nobody can go on: everybody has ended or, with
  losses, waits as above.  TLC also reports deadlocks in `nominal` by itself;
  `NoDeadlock` says it with the written conditions, so that it can be proved.
* `ImplementsService`: the whole system, seen through the mapping in `Perftest`
  (`TS`), is the service in `TransferService`.  Joined, serving, acknowledged,
  taken, left and closed are functions of `active`, `arrived`, `spc`, `repPeer`,
  `m_remote_addr`, `served` and `iter`.  A transfer whose server dies before
  `close_connection` stays under way for ever, which the service allows.  A server that
  dies after it, before the reply, leaves a transfer that has finished: its data is
  sent, and the client may take it.  Nothing else of a failure is visible.

What the run of `OOBComm` shows.  `OneConversation` says where the messages of a
client can be at one moment; `Converses` says what becomes of them.  The mapping
(`StageOf`, `WordOf`) reads from the sockets and slots whether a client is idle, has
asked, is held by the server, or is answered, and with which words.  Each call is
then one move of one client's conversation, or, out of turn, none: a client is
answered once for each request, with what the server sent to it.  A question
outlives the client that asked it, and an answer the server that gave it, unless it
was still on its way (`MayLose`, which is `LingerDrops`).  A conversation is over when
its client has left, or when the server left with its request or its answer.  That
no question and no answer is lost in any other way is part of it, because no move of
`Conversation` does so.  Requests of different clients may overtake each other, as they do between
ZMQ's queues.

What the run of `Programs` shows, beyond the ownership of the backend:

* `AccessesFit`: nothing in the code tests a size, and an access does not fit its block
  in exactly three cases, each named by a definition: the mapped buffer is too short
  for a larger size (`TooLargeForMap`), the warmup reads one byte of an empty block
  (`EmptyForWarmup`), and a client's block is too short for a server's larger data
  (`LargerThanOwn`).  With one size on both command lines, of 1 to `MAX_BUFFER_SIZE`
  bytes, every build reads and writes inside its blocks.
* `UnsizedServerNeverServes`: a server that was not given `data_size` does not serve, and
  the reason is indirect: `num_connections` follows it on the command line and is 0
  by default, which `Server::Server` refuses, as it does a 0 that was given.  What
  runs before that uses the uninitialized value all the same: the metadata of main,
  the constructor of `TagBackend`, and the transfer buffer that the warmup allocates in
  an `OPT_2` build.  A client has no such protection.
* `NoLeftover`, `ProgramSettles`: the warmup's message is received before `init`
  returns, and the order receive, wait for the receive, wait for the send does not
  block, whichever protocol UCX chooses.  The program ends unless its warmup could
  not send or its client could not connect.  `NeverWaitsForItself` says the same of a
  state: outside these two waits what the next call needs is there (`CanGoOn`), and
  `GoingOnTakesNoMore` that it needs nothing else; `EveryStepLeadsOn` that the program
  goes round only with another transfer.

What the run of `Base64` shows: `EncodesRfc4648` and `DecodesRfc4648` compare both
directions with the RFC's definition, which has no loop, no triplet and no tail: a
character is a digit of a number, a byte is a digit of another.  The decoder's
promise covers texts that no encoder wrote.  `DecodesRfc4648` uses the RFC's own
grammar (`RfcText`): all of its texts are decoded, to the bytes it gives them, and no
text with a foreign character, or with padding before its last four, is.  The decoder
accepts more than the RFC's texts, and `LenientTexts` says what: the padding at
the end of the last four may be short, missing or too long (`AA`, `AAAA=`, `===`), as
long as not a single letter is left over there.  Bits that no byte uses may have
any value, which the RFC leaves to the decoder.

*Bounds.*  Three clients: two can compete for the server while a third is served,
or has left, or still registers.  Two iterations: a message, a reply or a field of
one iteration can be met by the next, which is where staleness would show; more
iterations only repeat these pairs.  `PerftestFewer` has four clients so that the
server can be filled by any three while one is left over.  Both UCX protocols are
in every run.  The channel alone is run with two clients, because every action
concerns one client and the server's only peer.  Three transfers in
`Programs` give a first, a middle and a last one.  Its sizes are 0 to 3 with a mapped
buffer of 2 (`MAX_BUFFER_SIZE`, 32 MiB in the code): empty, one byte as in the warmup,
all of the buffer, and more; the properties only compare lengths.  `MaxConnections`
is 2: a program only asks whether `num_connections` is 0.  Up to five positional
arguments are given, one more than a server takes.  Five bytes make one full
triplet and each kind of tail, and an empty address; the four bytes set and clear
every bit that a shift moves.  Eight characters make one quartet of the loop and
every tail; the four characters are two letters (all bits clear, all set),
padding and a foreign one.  Nothing else is bounded:
`Perftest` needs no state constraint, because `NumIters` ends it.
`OOBComm`'s state is finite by itself.  `CHECK_DEADLOCK FALSE` is set where the
system may really stop: a process has died, a message was discarded, a
misconfigured server threw, or all sockets of the bare channel are closed.

*Fairness* (`FairSpec`): weak fairness of the server's steps and of each client's.
Each is one process that the operating system schedules, and its steps are enabled
when ZMQ, UCX or MPI has what the process waits for: those deliver without help
(ZMQ's I/O thread; UCX while the worker is progressed, which both wait loops do).
One WF per process is enough, since a process has one point of control and is
never offered alternatives that matter to progress, except which client the
server reads next; no fairness among clients is assumed, because each is blocked
until it is answered.  Failures are not fair.  `ProgramFairSpec` is weak fairness of the one
process; that its peers answer is what `Perftest` is about.  A failing call is an
alternative to its success, and both lead on.

*Assumptions.*  `WellConfigured` (the server's connections equal the number of
clients, and the data sizes agree) is what src/README.md:59-60 asks the user
for; the two misconfigured runs show what happens otherwise.

## 4. Proofs

The eight proof modules hold for every value of the constants that satisfies the
named assumptions (`BaseAssumption`, `OOBAssumption`, `TagAssumption`,
`PerftestAssumption`, `LifecycleAssumption`, `ProgramsAssumption`,
`Base64Assumption`): any number of clients, connections, iterations and transfers,
any sizes, with or without failures and losses, and addresses and texts of any
length that size_t arithmetic does not wrap.

* `OOBCommProofs.OneConversationAlways`.  `OneConversation` is inductive with the
  channel's types (`OOBTypeStep`, `OneConversationStep`).
* `OOBCommProofs.ChannelConverses` (`Converses`).  A lemma for each call says which
  move of `Conversation` it is, comparing the mapping one client at a time (`MapTurn`,
  `MapQuiet`).  `OneConversation` tells that a request that is read or answered had
  nothing before it in the reply's slot, and that a server that reads holds no
  question (`HandsFreeHere`).  Where a server leaves, `RepliesLeft` says which replies
  are lost, and `MapCut` that their conversations, and no others, are cut off with
  those of the requests it held.  One more invariant is needed: a server that may send
  knows whom it answers (`PeerKnown`).
* `PerftestProofs.TypeCorrect`, and `OneConversationInSystem`: every step of
  `Perftest` is a step of the channel or leaves it alone (`ChannelStep`), so that
  the channel's lemmas apply to the composition.  `SystemConverses` carries the
  refinement of `Conversation` over in the same way, with every death of client or
  server and every loss.
* `PerftestProofs.FreshPeer` (`NoStalePeer`).  `PeerInv` strengthens it: the
  server's socket agrees with `spc` (so it holds a request just when it serves
  one), and a client sends nothing but its own rank, tag and address.
* `PerftestProofs.CoreInvariance` and `NoProtocolException`.  `ProtocolNeverThrows` alone
  is not inductive: a step to `threw` is excluded only if the request in the slot
  is the one its sender's position calls for.  `ClientInv` has what is true of each
  client in every configuration: its socket's turn (`ClientSocketMatchesPC`), the
  barrier (`BehindBarrier`: whoever passed it left everybody registered) and its
  count (`IterMatchesPC`).  `ControlInv` adds, for matching command lines, the
  server's table (`ActiveMatchesPC`), the queued request (`RequestMatchesPC`) and the
  reply (`ReplyMatchesPC`).  `CoreInv` is `OneConversation`, `PeerInv`, `ClientInv`
  and, under `WellConfigured`, `ControlInv`.
* `PerftestProofs.NoSendVanishes` (`EverySendIsTaken`).  From `ClientSocketMatchesPC`,
  `ServerSocketMatchesPC` and `OneConversation`: the position before a send tells that
  the socket accepts it and that the slot is empty.
* `TransferProofs.Invariance` (`IInv`) adds `TransferInv` and `MemberInv`.
  `OneTransferPerIteration` needs to know, for each position of client and server,
  whether the transfer of this iteration was posted, taken or acknowledged:
  `TransferMatchesPC` says so, with `Unserved` (nothing posted yet) and `Awaiting`.
  `MemberInv` ties the table to the clients' progress: who is not in the table any
  more has left (`HasLeft`).  Neither depends on the configuration.
  `OneTransfer`, `EndMeansServed` and `ConnectionsAreTheirClients` follow; so does
  `MisconfigurationIsInert`: with too few connections a client is never registered
  and the barrier stays shut, with too many the server is still in `Server::start`
  when the first request comes, and no data of another size is accepted, be it
  smaller or larger (the run has one pair of sizes, the theorem every pair).  TLC checks `IInv` in the run `faults`.
* `ServiceProofs.SystemIsService`.  A lemma for each action of the
  service (`MapJoin`, `MapBegin`, ...) says when a step is that action, comparing the
  mapping's functions one client at a time (`StatusOf`, `AckedOf`);
  `ServiceServerStep` and `ServiceClientStep` show each step of the processes to be
  one of them or a stutter.  The registration is the service's join, the request's
  arrival the begin, the reply the finish, its receipt the take.
* `ServiceProofs.ProbeIsOwed`.  Two more invariants hold where nothing fails and no
  close discards: what was posted and not probed for is still there
  (`StillPosted`), and nobody has failed (`NoFailure`).  A probing client's
  conversation is then in exactly one of three places (`OneConversation`), and each
  of them owes it the message.
* `ProgressProofs.StepsCount` (`EveryStepCounts`).  A client's progress is its
  iterations, then its position, then how far its last request is.
  `ServerStepCounts` and `ClientStepCounts` compare it before and after each action:
  a request that is overtaken by the client's next position costs less than the
  position brings.  `ProgressIsBounded` uses `IterMatchesPC`.  It holds in every
  configuration.
* `ProgressProofs.StuckIsSettled` and `DeadlockFree`.  Four more invariants say what
  holds while somebody waits: a server that still reads has an active connection, and
  a client's wait has its request (`WaitInv`); a large message and the server's wait
  for its receipt come together, unless the client has died (`RendezvousInv`); a
  server that died of a client's death leaves the others' requests where they are,
  and the replies but those that were lost with it (`OrphansInv`, `AnswerLost`): the
  client of a lost reply does not read it any more, or has its data; and the farewell stays in the queue until it is
  read, where no socket drops it (`FarewellKept`).  `StuckClients` goes through the
  positions of a client that cannot go on: with `OneConversation` its request has not
  been read, and then the server is stuck or dead, or its reply is there, and then it
  can go on.  `StuckServer` does the same for a server that reads from an empty queue.
  `Unstuck` adds `StillPosted` and `NoFailure` where nothing is lost: a client in its
  probe or its wait can go on, so all that is left is the barrier and
  `MPI_Finalize`, which everybody has then reached.
* `ProgressProofs.LargeMessagesAreKept` (`LargeSendsAreHeld`), in every configuration
  and with every failure, is inductive with `IInv`: a server about to post has nothing
  under way to its client (`Awaiting`), and to nobody else, because it is not waiting;
  its wait ends only on a request that is complete, and the one message whose fetching
  completes it is then gone (`OneTransferPerIteration`).
* `BackendLifecycleProofs.Ownership`, `MemoryDiscipline`, `NothingLeft`.
  `OwnershipInv` states what is held as a function of the position, the build
  and the mode (`HeldInv`) and that the pointers name it (`PointersInv`).  It also
  says `~ m_initialized`, which is why the second release in `shutdown` never
  happens: see section 6.  One lemma per conjunct, one step per action.
* `ProgramsProofs`.  `ProgramDrivesBackend`: every step of main is a step of
  `BackendLifecycle` or leaves it alone, so that its theorems hold of the programs
  (`ProgramOwnership`, `ProgramMemory`).  `ProgramInv` relates `main` to `pc`, the warmup's message to
  the position in the warmup, and `num_connections` to the number of arguments;
  `UnsizedServer` and `WarmupLeavesNoMessage` follow from it.  `BuffersHoldTransfers`
  also needs `OwnershipInv`: the pointers tell which block an operation reaches, and so
  which of the three cases it is.
  `ProgramGoesOn` (`NeverWaitsForItself`) needs that the warmup's probe is owed its
  message (`WarmupIsOwed`), because it was sent to the process's own address, and that
  a transfer starts with its endpoint or its buffer (`OwnershipInv`).
  `ProgramLeadsOn` (`EveryStepLeadsOn`) adds the places in main and in the backend to
  the transfers begun; the heads of the loops are beyond all that a transfer goes
  through, so that coming back to them counts, too.
* `Base64Proofs.CodecInvariant`, `CodecInBounds`, `EncoderIsRfc4648`, `AddressRoundTrip`.  `RoundTripInv`
  adds how far each loop has come: whole triplets encoded (`EncodedSoFar`), whole
  quartets decoded and something left for the tail (`DecodedSoFar`), the text that
  arrives (`TextIsEncoded`).  The argument goes by groups: three bytes have four
  letters (`RfcGroup`, from `SixbitsAreDigits`), four letters give the three bytes
  back (`QuartetDecodes`, from `OctetsOfSixbits` and `LetterDecoded`), and where the
  encoder padded, the letter was an 'A' (`PaddingIsA`), which is what the decoder
  puts there.  `WriteInside` and `ClearInside` say what memcpy and memset do.
* `Base64Proofs.DecoderIsLenient` (`LenientTexts`), for texts that no encoder wrote.
  `DecodedRfc` is the inductive part: what is decoded so far are the RFC's bytes, and
  it came from letters only.  `OctetsAreDigits` shows that the shifts of a quartet
  give the digits to base 256 of the number whose digits to base 64 its letters are.
  For the tail, `BodyIsWhereItEnds` and `BodyFromTail` find where the letters end from
  the last four characters alone; `MalformedIsInvalid` shows that what the tail rejects
  is what the lenient grammar rejects, and `LastIsRfc` that the bytes of the padded last
  quartet that the decoder keeps are the RFC's.  `DecoderIsRfc4648` (`DecodesRfc4648`)
  follows: the RFC's texts are lenient ones with the same letters (`RfcTextIsLenient`),
  and a lenient one has letters up to its body and padding after it.

## 5. Model-checked only

* `RunCompletes`, `EverybodySettles` and `ProgramSettles`: liveness under fairness is
  beyond the provers used here.  Everything they rest on that has no liveness in it is
  proved: the number of steps is bounded (`StepsCount`, `ProgramLeadsOn`), and where
  nobody can go on everybody is settled, or done (`StuckIsSettled`, `DeadlockFree`,
  `ProgramGoesOn`).  What is left to TLC is the inference from weak fairness.
* `NothingElseBlocks` and `GoingOnTakesNoMore`: `ENABLED` is beyond the provers too.
  They are the bridge between the written conditions of the theorems above and the
  actions.  One direction of the first needs no `ENABLED` and is proved: no process
  takes a step while its condition is false (`ServerWaits`, `ClientWaits`), so that
  nothing but a failure happens in a stuck state (`StuckIsFinal`).

## 6. Findings

1. `ShutdownReleasesAll` is violated.  `AbstractBackend::init` never sets
   `m_initialized`, so the body of `shutdown` (abstract_backend.cpp:211) never
   runs, although its comments (lines 217, 225, 231, 236) say what it releases.
2. `LocalAddressIsHeld` is violated.  In an `OPT_2` build the warmup of the server
   makes `m_remote_addr` an alias of `m_local_addr`; `close_connection`
   (tag_backend.cpp:176) frees it and clears only `m_remote_addr`.  `shutdown`
   takes a local address that is not null for one "not already released"
   (abstract_backend.cpp:225).  With finding 1 repaired alone, the address would
   be released twice: the mutant `InitMapMarked` shows it.
3. `Opt2EnablesOpt1` is violated.  The help of `OPT2` (CMakeLists.txt:25)
   promises both optimizations; `OPT2` defines only `OPT_2`.
4. `AddressSizeIsDecodedSize` is violated.  base64.h:37 says that
   `base64_decoded_length` "does not return the size of the decoded data";
   `Server::single_run` (server.cpp:123, 136) hands its result to `set_remote_addr`
   as the size of the address and drops the size that `base64_decode` returned.
   `RoundTrip` shows that the surplus bytes are NUL.

Observed, with nothing in the repository that says otherwise: a client's encoded
address (client.cpp:82) is freed only when encoding fails, so each iteration
leaves one block (`enc_bufs` in `TransferLeavesNothing`); and the warmup receives
before it looks at the result of its send (abstract_backend.cpp:258), so a failed
send leaves it probing for ever (`ProgramSettles` names it; a transfer looks first).  `zsock_connect`'s result
is ignored (oob_comm.cpp:29), so a client with an address ZMQ rejects blocks in its
first send (`Unreachable`).  One client that starves in its probe keeps every
other client in `MPI_Finalize`.

The launch commands of src/README.md:43 and :55 are of an earlier version: there is
no program `dyad_ucx_perftest` and no `-s`.  Started with the three positional
arguments given there, the server has 0 connections and throws before it serves
(`ServerRefuses`).

## 7. Not modelled

* The codec's `EOVERFLOW` returns, which its callers' sizes exclude, and alphabets
  other than RFC 4648's.
* The wording of the command line: which text is a number or a mode.  Only that a
  command line is accepted, with how many arguments, or rejected.  Adiak metadata,
  Caliper regions, logging: they change no state of the protocol.
* `malloc` returning null for a data buffer; the content of the data (`/dev/urandom`,
  and whether `open` and `read` succeed); timing.
* Whether a block is released by the function that belongs to its allocation (`free`,
  `ucp_worker_release_address`, `ucp_mem_unmap`): only that it is released once.
* MPI start-up, and the abort by which MPI may end the clients together when one of
  them dies (a client's failure is single here, which allows more behaviours).
* The request's `completed` flag, which the callbacks set and nothing reads, and the
  parameters of UCX's context and worker.
* UCX's and ZMQ's inner workings; only what section 2 lists.
* Launch scripts, the notebook and the recorded data.

## 8. What is left

Of what the model covers, the inferences of section 5.  Beyond that, what remains is
external (UCX, ZMQ, MPI), offline (the notebook) or without behaviour of its own
(logging, launch scripts).
