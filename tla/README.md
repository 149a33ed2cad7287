# last-tftp: specification and proofs

last-tftp is a TFTP client and server in Rust (RFC 1350 with the options of RFC
2347 to 2349 and 7440): a library crate, `last-tftp-core`, and an application,
`last-tftp-app`, with a command line and a GUI. This directory holds TLA+ models
of the library's transfers and of the GUI's state, the TLC configurations that
check them, and proofs about them for TLAPS. Line numbers refer to
`crates/last-tftp-core/src/` and `crates/last-tftp-app/src/`.

## 1. The system

### Components

| component | code | state | operations |
|---|---|---|---|
| GET client | `client.rs` `get`, `negotiate_get` | expected_block (u64), last_acked_block (u16), retries_left, the TID it answers to, blksize and windowsize, write position and the write under way | request with retries, OACK or DATA(1) or ERROR as the answer, next / old / gap DATA, time-out |
| Read server | `server.rs` `serve`, `handle_one`, `serve_read` | per request: block (u16), read position, which ACK it awaits | spawn, refuse, OACK, send, take an ACK, time out |
| PUT client | `client.rs` `put`, `negotiate_put` | next_block (u16), read position, attempt | request, send a block, ACK, ERROR, unexpected packet, time-out |
| Write server | `server.rs` `serve_write` | per request: expected_block (u16), write position; the file is shared | spawn, refuse, OACK, create the file, next / repeated / later DATA, time out |
| Option negotiation | `options.rs`, `clamp_negotiation` | none (pure) | read, settle, answer, adopt |
| Retries | `transfer.rs` `with_retry`, `server.rs` `wait_for` | attempt, delay, deadline | wait, sleep, double the delay up to a cap, give up; set and miss a deadline |
| Packet codec | `packet.rs`, `opcode.rs`, `error.rs` | none (pure) | parse, encode |
| Path sanitising | `server.rs` `sanitize_path` | none | accept or refuse |
| GUI server lifecycle | `gui.rs` `start_server`, `run_server_with_observer`, the Start/Stop button | a thread, a port, a stop flag, a socket and channels for each Start; `running`, `server_stop` | bind twice, receive, spawn, report, stop |
| GUI transfer table | `gui.rs` `poll_messages`, `start_transfer`, remove button | rows, next_id, three receivers | one loop per receiver in each frame; start, remove |
| Target parsing | `transfer.rs` `parse_target`, gui.rs:390 | none (pure) | take HOST:FILE apart |
| Command line, name resolution, progress bar, drawing | the rest | none of interest | not modelled |

### How they interact

A client binds one UDP socket and sends RRQ or WRQ to the server's port. `serve`
spawns a task per request *datagram*, a repeated one included; the task binds a
socket of its own (its port is the TID), so that one client may hear from several
sessions. Client and session then exchange OACK, DATA, ACK and ERROR. The write
sessions of repeated requests share one file. In the GUI each Start makes a thread
that runs a copy of `serve`; its tasks report to the UI thread through channels,
and the UI thread empties them once per frame. Client transfers have one thread
each and one common channel.

### What is hard

* No session knows of the others: a repeated request, by `with_retry` or by the
  network, starts a second transfer in parallel.
* Every ACK and every block may be lost, repeated, overtaken, and the two ends'
  timers may fire while an answer is on its way.
* Block numbers are 16 bits wide at the server and 64 at the GET client.
* Windows: the GET client acknowledges the last block of each window, the server
  waits for an ACK of block 1.
* The OACK of a WRQ precedes the creation of the file.
* Writing to a tokio `File` returns before the bytes are on the disk; the next
  write gets the error, and after the last one nobody asks.
* Both ends measure time on their own: the client waits and sleeps with a delay
  that doubles, the session has one deadline.
* The GUI ties events to rows by names, and progress reports by nothing at all;
  a stop flag is read between two blocking receives.

### What makes each part correct

Negotiation: both ends settle on the same legal values. GET: the local file is
always an initial part of the source; a block is acknowledged when it is handed to
the file and all before it are in it, and Ok says that of the last block; both ends
finish. PUT: the same seen from the server's file, also when several sessions write
it. GUI: one unfinished row per unfinished transfer, rows advance and finish, a
stopped server leaves, the log says what the server does. Retries: a loss is made
good or ends the transfer, within a bounded time. Codec: what is encoded is what is
read. PROJECT.json lists the hazards line by line and the property that watches each
of them.

## 2. The models

| module | models |
|---|---|
| `Options` | `options.rs`, `clamp_negotiation`, the options that requests and OACKs carry. An option set is a function from names to naturals |
| `Negotiate` | one exchange of options, with last-tftp's server or a foreign one |
| `Codec` | `packet.rs`, `opcode.rs`, `error.rs` and the byte form of `options.rs`: `encode` and `parse` on sequences of bytes |
| `Wire` | `Negotiate` with those bytes, and with the HOST:FILE target the request is made from; foreign servers spell options in their own way, strangers send anything |
| `Network` | UDP (external): a queue per port; `Lose`, `Duplicate`, `Delay` within a budget |
| `Packets` | the packets as records; a DATA packet carries where its bytes come from (`off`) and how many (`len`), no bytes |
| `Files` | files as sequences; byte i of the source is the number i, holes and old contents are 0 |
| `GetClient`, `ReadServer` | the two ends of a GET; the client's write is an action of its own (`Land`), after the ACK or before it, and the disk may be full |
| `TftpGet` | their composition, its properties |
| `PutClient`, `WriteServer`, `TftpPut` | the same for a PUT; here the session writes |
| `TimedPut` | `TftpPut` with clocks: the delays of `with_retry`, the deadline of `wait_for`, a network with a latency that loses datagrams |
| `FileCopy` | what a transfer promises: the abstract specification that `TftpGet` refines |
| `GuiServer` | the threads behind Start and Stop with their two binds, their tasks, and the three channels of each Start: status lines, transfer events, progress |
| `GuiRows` | rows, `poll_messages`, client threads |
| `Gui` | the UI thread's frames, the composition and its properties |
| `MC*` | small instances |

A component's variables are the locals of its functions. One action is what a
task does between two awaits on the network or the clock: `ReceiveReply` is one
turn of `negotiate_get` after `recv_packet` and up to the next wait, and so on.
`pc` names the await at which a task stands; the comment at each `...States`
explains the values. What the code does at once (sending and counting, handing over a
block and acknowledging it) is one action.

`BlockMod` stands for 2^16 and `U16` for the width of option values. They are two
constants, because the wrap of block numbers must be within reach of a run while
option values need room of their own. The GET client's `expected` is not reduced
modulo `BlockMod`: in the code it is a u64.

**Time.** The models have no clock, `TimedPut` excepted. `ClientTimerDue` and
`SessionTimerDue` say when a timer can fire at no cost: when no answer is under way
or about to be sent. A timer that fires earlier is a fault of kind `late`, drawn
from the same budget as losses. So the fault-free runs assume that answers come in
time, and the runs with faults do not. `TimedPut` shows that this rule is a
consequence of the clocks, where the network is fast enough: a timer fires there
when its time has come, each step is one of `TftpPut`'s, and that no other fault than
a loss is needed for it is the refinement `ImplementsPut`. A second is `Second`
ticks, a datagram is received within `Latency` of them if its receiver listens, and
twice the latency is less than a second: a round trip is shorter than the shortest
time-out. Time passes (`Tick`) when nobody can go on, or has to.

**Deferred writes.** `write_all` of a tokio `File` hands the bytes to a thread and
returns; the next write waits for that thread, and gets its error. Both ends that
write a file do it so: `get` and `serve_write` have at most one write `pending`;
`Land` carries it out, up to the `room` on the disk, and `broken` is an error nobody
has been told of. `NextData` and `TakeBlock` wait for the pending write, fail if it
was broken, and acknowledge the new one before it is done. The last block of a file
is therefore acknowledged, and Ok returned, before it is written; nobody learns
whether it was. `FileCopy` promises no more than that: `due` is what has been handed
over and is not in the file yet.

**Bytes.** `Codec` works on bytes 0..255. Option names are shorter there than in
the code (`NameText`), in the same order, which is the order of the `BTreeMap`. The
options of a parsed packet are what the typed getters see: a name without a
getter, or a value that is no number, is absent. `Wire` has one datagram under way.
What an end does with it comes from its bytes only; `sent`, the packet it was made
from, is for the properties and to tell the client's own exchange from a stranger's.

**GUI.** One action is one turn of a loop in `poll_messages`, since threads send
while it runs. `task` in a row or an event, and `late` in a thread, are
bookkeeping of the model: no action of the code's reads them, only properties do.
A client's message is its end only: the callback that `start_transfer`
gives to `Client` (gui.rs:391) is stored and never called, so that no
`GuiMsg::Progress` is ever sent, and the `Progress` arm of `poll_messages` is out of
reach; client.rs:134 and DESIGN.md:149 speak of live progress. `said` is the last
status line in the log. `Inside` says which peer and file names are found in which row
targets (`contains`, `ends_with` in gui.rs:441-444): always their own, and those of
another file too if its name ends in the same way. Each Start has a port, which the
user may have changed before it (gui.rs:609); `holder` is who has each of them, and
`arrivals` the datagrams that have come, with the thread at whose socket each waits.

### Left out

I/O errors of the client, and of the server, other than opening the server's file and
a full disk; `File::create` at the GET client is taken to succeed. A process that
exits before tokio's thread has done the last write (the model lets it be done at any
later time, so that it may be late, but not lost without an error). Datagrams that do
not parse are in `Wire` only (they end a negotiation, and a PUT, at once; a GET that
is under way takes them for a time-out; servers skip them, and the sessions' sockets
are connected, so that they hear their client alone). The names of hosts are not
resolved. The client never sends ERROR, and nothing sends the servers anything but
requests, DATA and ACK. `serve_write` without options, which begins with ACK(0), is not reached by last-tftp's own
client, which always sends options. Formatting, the wording of the log, speeds and
totals, the firewall rule, the choice of IPv6 and the drawing are left out of the GUI.

## 3. The runs

Each `.cfg` is one question.

| run | shows |
|---|---|
| `negotiate` | with the real constants and values around each bound: `GrantedLegal`, `EndsAgree`, `StrictAndLenientAgree`; through the bytes of the datagrams the same exchange, `ImplementsNegotiate`, parse after encode, `ReadsBack`, and `AsksForTheNamedFile` |
| `get` | any two faults anywhere: `AckedIsStored`, `ServerOkMeansStored`, `AheadByAWindow`, the refinement `ImplementsFileCopy`, `Terminates`, and `CopyInv`, the invariant the proofs use |
| `get_delivers` | five duplications or delays of DATA and ACK, no loss: `NoStandOff`, resumed or not, and every GET from block 1 ends as the file and the disk decide, `EndsAsTheFileDecides` (the theorem about `NoStandOff` needs less: any datagram may be repeated or delayed, and timers may fire early) |
| `put` | any two faults anywhere, up to five sessions on one file, a disk that may be full: `OkMeansStored`, `AckedIsStored`, `NothingMisplaced`, `SurplusBounded`, `ServerOkMeansStored`, `Terminates`, and, when no fault happens and the block numbers suffice, `EndsAsTheServerDecides` |
| `put_timed` | up to three losses, with clocks: `ImplementsPut`, `RepeatsTooLate`, `SessionsNeverMeet`, `GivesUpInTime`, and when only requests and OACKs are lost, `LostRequestsAreRepeated` |
| `gui` | a server started twice, on the usual port or another, two datagrams or client transfers, repeated requests, names that are found in one another, bind and receive errors: `OneRowPerTask`, `OneDatagramAfterStop`, `RowsOnlyAdvance`, `RowsFinish`, `StoppedServersLeave`, `LogTellsTheTruth` |
| `get_lost_block`, `get_resumed_wrap`, `get_window`, `put_wrap`, `put_lost_block`, `gui_progress` | each violates one property that states what the repository says (section 4) |

Some of what they show is worth saying in words.

* *Retries of blocks are of no use* (`put_timed`). `with_retry` waits T and then
  sleeps T before it repeats a block, and the delay of the first attempt is the
  session's whole deadline: a repeated block always meets a closed session
  (`RepeatsTooLate`), and one lost block or ACK ends the PUT however large
  `retries` is (section 4). A lost WRQ or OACK is repaired
  (`LostRequestsAreRepeated`): the repeated request starts a session of its own, and
  never one that meets another (`SessionsNeverMeet`); only a network that duplicates a request can make two
  sessions write one file, which is what `put` is about. A stale packet costs the
  client an attempt before its time, and then repetition and deadline do race:
  those runs are in `put` as well.
* *A full disk* (`get_delivers`, `put`). A block may be acknowledged and not stored.
  In the middle of a file the writing end then gives up without a word to the other,
  which times out; at the end both say Ok and the last block is missing.
  `AckedIsStored`, `OkMeansStored` and `ServerOkMeansStored` say exactly how much that
  is: one block, and only as long as its write is `Unsettled`.
* *What an ACK says* (`get`). Block numbers wrap at the server, and a resumed transfer
  has blocks that were never sent or dropped: there an ACK counts nothing.
  `AckedIsStored` of a GET is about `Countable` transfers, whose blocks have numbers of
  their own, and what becomes of the others is a finding.
* *The server's Ok* (`get`). A file that ends in a full block is followed by an empty
  one, for which `serve_read` takes any ACK (server.rs:228), an old one too. So its Ok
  vouches for the whole of a file that ends in a short block, and otherwise only for
  the blocks that it has waited for: `LastAwaited`.
* *Names in names* (`gui`). If the file of one request is `a` and of another `ba`, from
  the same peer, then the end of `a` may close the row of `ba`, if that is newer.
  `OneRowPerTask` and `RowsFinish` say for each origin what is left of the agreement:
  at least as many rows as tasks where no other event can close them, at most as many
  where an origin's own events can close no other row.
* *Rows nobody finishes* (`gui`). A receive error, or Stop, drops the tasks of a server
  without closing events; their rows stay unfinished, and `RowsFinish` says that these
  are all. Those of an earlier server stay as well, unless a later event happens
  to fit them.
* *Restart* (`gui`). A Start whose port is still held says so in the log although
  the button reads Stop; `LogTellsTheTruth` says that while it does, the log
  comes to say whether the server is listening.
* *IPv6 in the GUI* (`negotiate`). gui.rs:390 joins host and file with a colon, and
  `parse_target` splits at the first: an IPv6 address needs brackets in the GUI's
  host field too. `AsksForTheNamedFile` names it as its exception.

**Bounds, and why they are enough.** `MaxFaults` is 2 (5 in `get_delivers`, 3 in
`put_timed`): the combinations that matter here (a duplicated request and a
reordered block, a lost ACK and an early timer) take two. `MaxSessions` is the
greatest number of requests that `retries` and the faults can bring about, so that
no request is ever left unserved for want of a session. Blocks have one, two or four
bytes, files 0 to 11, around every boundary: empty, one full block, a block and a
bit, the last block number, and past the wrap (`BlockMod` is 4 or 8). `Rooms` has a
disk on which every file fits and one that is full in the middle of some, within a
block or at its end. `OldLen` is 1, so that truncation is visible. Configurations have lockstep, windowsize 0, a
window, and retries 0 to 3, in `put_timed` 0 to 5 (with five attempts the delay
reaches its cap) and two time-outs. `Second` is 3 and `Latency` 1: the smallest
ticks in which a round trip is shorter than a time-out and yet takes time. In
`negotiate` the datagrams of strangers are of every kind and cut at every length;
foreign values are written with a plus, with zeros, in every order, and twice. In
the GUI two Starts give one restart while the old thread lives, on its port or beside
it on another; two datagrams or client transfers give a repeated request, or two
files one of which is found in the target of the other; one report per transfer
suffices for rows that go back. `MaxInputs` bounds what comes in altogether: of two
Starts, a changed port, two transfers and their reports four happen in one behaviour, in
any choice (`WithinBound`). The largest run, `gui`, has 0.8 million states.

**Deadlock** is not checked in the transfer models, where the system stops when
the transfer is over; `Terminates` says that it stops nowhere else. It is checked
in the GUI, which never stops.

**Fairness.** A task that can go on is polled, a timer that is due expires
(`WF` on each component's step, each due timer, the listener, and the thread
that carries out a deferred write), in `TimedPut` time goes on (`WF` on `Tick`), and
nothing is
assumed of the network: faults are never fair. Timers are fair only
when due (`/\ UNCHANGED faults`), so that no progress rests on early time-outs. The
GUI's frame is fair because the window repaints every 200 ms; its tasks and clients
end by `Terminates` of the transfer models; a receive error, Start and Stop are
not fair.

## 4. Where the code and its documents disagree

* **A lost block is not repeated in a GET** (`get_lost_block`): `serve_read` sends no
  block twice. client.rs:145 says that the repeated ACK makes it.
* **A lost block is not repeated in a PUT in time** (`put_lost_block`): `with_retry`
  waits and then sleeps, and the session has given up by then, so that one lost DATA or
  ACK ends a PUT that has attempts left. DESIGN.md:93 and :157, transfer.rs:36 and
  docs/protocol-notes.md:171-177 describe retransmission up to `retries` times.
* **Large files in a GET** (`get_resumed_wrap`): the server wraps its block number, the
  client does not, and takes the second cycle for old blocks, which it acknowledges
  and drops. server.rs:282-284, DESIGN.md:161.
* **Resume** (`get_resumed_wrap`): `resume_from_block` 1 truncates the local file, seeks
  past block 1 and never takes it, so that the file has a hole at its beginning; of a
  file of at most one block nothing arrives. The repository's README.md:69 and :93 say
  that `--resume` is a retransmission from block 1. (The run has a resumed GET of a
  large file, of which `ResumedLargeFileArrives` asks for one of the two only.)
* **Large files in a PUT** (`put_wrap`): `put` ends with a protocol error when its
  counter wraps (client.rs:317). server.rs:372 and DESIGN.md:161.
* **Whole blocks in a PUT** (`put_wrap`): no empty last block is sent, so that the
  server times out on a complete file. docs/protocol-notes.md:38, DESIGN.md:161. (A
  file with fewer blocks is Ok at the client at least, `EndsAsTheServerDecides`; one of
  exactly as many whole blocks as there are numbers is reported as a failure by both.)
* **Windows** (`get_window`): with windowsize above 1 the server waits for ACK(1)
  and the client for the window. docs/protocol-notes.md:119-124. (On a real
  clock a timer ends the stand-off; the repository's README.md:77 claims window 8
  works.)
* **Progress in the wrong row** (`gui_progress`): with two server transfers the
  newest unfinished row gets every report. gui.rs:459.

One more is in the models and has no run of its own. options.rs:4 says that only values
settled by the server are accepted; but `apply_oack` starts from what the client asked
for, so that against a foreign server that leaves blksize out of its OACK, or sends
none, the client goes on with its own value (`ForeignAnswer` and `Adopt` in
`Negotiate`), and the first block of 512 bytes counts as the last one.

## 5. The proofs

| theorem | states | assumes, beyond the modules' ASSUMEs |
|---|---|---|
| `NegotiationIsLegal` | the server's values are legal | |
| `NegotiationAgrees` | both ends settle on the same | |
| `ReadingsAgree` | the strict reading accepts exactly what the lenient one leaves unchanged | `MaxWindow = U16 - 1` |
| `GetTypes` | `TypeOK` of a GET | |
| `GetAcksAreStored` | `AckedIsStored` | legal blksize (and it is about countable transfers) |
| `GetServerOkMeansStored` | what Ok at the server means | the same |
| `GetImplementsFileCopy` | the refinement | legal blksize, no resume, and lockstep or a file shorter than the wrap |
| `GetAheadByAWindow` | at most a window ahead | legal blksize, no resume |
| `GetNeverStandsOff` | `NoStandOff` | the network loses nothing, and every configuration settles on lockstep |
| `GetKeepsCopyInv` | `CopyInv`, below | (it says nothing of the other configurations) |
| `PutTypes` | `TypeOK` of a PUT | |
| `PutNothingMisplaced` | `NothingMisplaced` | |
| `PutAcksAreStored` | `AckedIsStored` of a PUT | (it is about a single session) |
| `PutOkMeansStored` | Ok at the client means stored | (the same) |
| `PutServerOkMeansStored` | Ok at the server means stored | (the same) |
| `PutSurplusBounded` | `SurplusBounded` | |
| `TimedPutTypes` | `TimedTypeOK` of a PUT with clocks | |
| `TimedImplementsPut` | the steps of `TimedPut` are steps of `TftpPut` | |
| `TimedRepeatsTooLate` | `RepeatsTooLate` | |
| `TimedSessionsNeverMeet` | `SessionsNeverMeet` | |
| `TimedGivesUpInTime` | `GivesUpInTime` | |
| `GuiTypes` | `TypeOK` of the GUI | |
| `GuiStopsAfterOneDatagram` | `OneDatagramAfterStop` | |
| `GuiRowsOnlyAdvance` | `RowsOnlyAdvance` | |
| `GuiOneRowPerTask` | `OneRowPerTask` | |

The modules' own ASSUMEs are about the bounds and the sets that stand for inputs:
constants are natural numbers, there is room for one session at least
(`NetworkAssumption`), a request's origin is never the mark of a client's row
(`GuiRowsAssumption`). Two of them say more. Twice the latency is less than a second
(`TimedPutAssumption`), which is when a round trip fits into every time-out. And a PUT
with clocks waits at least a second for an answer (`WaitsAssumption`): DESIGN.md:78
has time-outs from 1 to 255. The command line takes a zero as well, and `with_retry`
then does not wait at all; of such a PUT only the theorems without clocks speak.

Those about the GET and the PUT hold for every number of sessions and faults, every
configuration and file, every block size and every width of block numbers. The
argument about the GET has four layers.

`GetInv` (`TftpGetProofs`) adds to the types that every ACK under way, and
`lastAcked`, lies below `expected`. Neither is inductive without the other: a
time-out sends `lastAcked` again, and an old DATA packet sets it back; and what the
network may duplicate at any other port needs the same bound.

`CopyInv` (`TftpGetProofs`) relates client, sessions and packets. The file is the
source as far as the write position, and what has been handed over beyond it is the
pending write, or the failed one, and a part of one block (`Held`); what the client
has counted lies within the source (`Counted`), each session's position is the one its
block number says (`InStep`), every DATA under way carries the bytes its number says
(`Rightful`), every RRQ and OACK the same values. It is stated with an escape: once
`expected` reaches `BlockMod` the client takes no DATA any more, so that nothing need
be said about packets and positions after the wrap. The refinement maps `cl.pc` to
`idle`, `active`, `ok` and `failed`, and `due` to what is handed over and not in the
file; each step of the client is Begin, Continue, Complete, Abort or a stutter, `Land`
is Write, or a stutter if nothing fits, and all other steps stutter. A failed write
leaves `due` as it is for ever, and since the next block needs an empty one, nothing is
handed over after it. The assumption on blksize is there because a client
configured with an illegal block size works with another one than the server's until
it has heard the OACK; the assumption on lockstep or length because a window that goes
on across the wrap, with a loss, can take a later block for an earlier one.

`AckedIsStored` follows from both: an ACK under way is for a block below `expected`,
and of the blocks below it `Held` says that they have `Arrived`. An ACK says so only
where numbers and blocks are the same, in a transfer from block 1 that does not wrap
(`Countable`).

`PaceInv` says of each session that the last end of a window before its block
number has been counted by the client, and of one that has returned Ok on a file that
ends in a full block that the last block it has waited for has (`Vouched`); with
`CopyInv`, `AheadByAWindow` and `ServerOkMeansStored` follow.

`FlowInv` is about who owes what to whom while nothing is lost: a session that waits is
owed an ACK, and either that ACK is under way (`Acknowledged`), or the block that the
client will answer with it (`Brought`), or the session's OACK (`Greeted`), which ends a
client that has taken another packet first. When the client's timer is due nothing is under way,
so that nobody waits. It does not matter how datagrams are repeated and delayed, nor
that a timer fires early: until the client takes its first packet all that any session
has sent to it, attempt after attempt, is still in its queue (`UntakenInv`), and what
it then takes it answers, or drops with that session's OACK still to come, or is ended by. For
the answer to be the one waited for, no block may be ahead of the one expected
(`OrderlyPackets`), which is where lockstep comes in. Both assumptions are needed: a
lost packet lets a session wait in vain, and so does a window of more than one block
without any fault (`WindowFlows`, section 4).

`PutInv` (`TftpPutProofs`) says where everyone stands: the client's position is the
one its block number says, a session's is the one its count of blocks says, less the
block whose write has not landed, unless a write has failed; every DATA under way
carries the bytes its number says. It is inductive by itself, with the wrap of the
server's expected block and with any number of sessions on one file. As a session
writes behind what it has written, `NothingMisplaced` follows from it: a byte lands
where it belongs whoever truncated the file in the meantime.

`KeepInv` adds what a single session has stored. Its count of blocks, `Taken`, is the
measure that everything else is compared with: no ACK under way is for a later block
(`AckedUpTo`), the client believes no more than that (`Believed`), and the file is the
beginning of the source as far as those blocks go, but for the last one (`Kept`). The
exception is needed because serve_write acknowledges a block before tokio's other
thread has written it. `AckedIsStored`, `OkMeansStored` and `ServerOkMeansStored` are
three readings of `KeepInv`, none of which is inductive without the others.

`NoBreeding` counts: the datagrams that can be answered, the sessions about to answer
a request and the client about to send are together one more than the faults at most.
A step uses one of them up before it makes one, and a fault makes one; so
`SurplusBounded` holds although either end answers a repetition with a repetition.

`TimedInv` (`TimedPutProofs`) is about who is at work when, and for how long. A timer
of `TftpPut` fires when no answer is on its way, one of `TimedPut` when its time has
come; for the second to be a case of the first, the clocks must tell where the
datagrams are. They do because client and session take turns: no two sessions are
alive, at most one datagram is under way to the server and then none to the client,
the session expects the block that the client has sent or the one behind it, and
nothing is under way while the client sleeps (`TurnsInv`). Then each age is bounded from
below by how long the client has waited (`AgesInv`): a datagram to the server is as
old as the wait, an answer at most a latency younger. No datagram is older than a
latency: time waits for one that old only if its receiver listens, and whatever is
under way when time passes has a receiver that does (`SomeoneListens`), since
the sockets of those that have finished are closed and nothing is coming to a client
that sleeps.
So when the wait is over, which takes two latencies at least, none is left. The
same holds at a session's deadline, which starts when it has received a datagram
(`DeadlinesInv`): what is left of it and what the client has waited are together no
more than the time-out and a latency, and so it is over before the sleep is that
follows the wait. That gives `RepeatsTooLate` and `SessionsNeverMeet`, and these in
turn `TurnsInv` for the next attempt: none of the parts is inductive by itself.
`BudgetInv` compares what the attempts have cost with the sum of their delays. That
sum is written in closed form (`Factor`, `FactorSum`), which a proof can use; TLC
checks in `MCTimedPut` that it is the sum (`FactorsAddUp`).

`LateInv` (`GuiProofs`) is what `OneDatagramAfterStop` lacks to be inductive: a
thread that took its one datagram after Stop has its flag set and is at `check`,
`closing` or `ended`. From `check` a set flag leads to `closing` only, so that it
never gets back to the socket: no step clears a flag, since each Start makes a
thread with a flag of its own.

`Bounded` is what the GUI's types need: a row is made for a client transfer or for the
start of a task, a task for a datagram, and the starts that wait in the channel are
those of later and later tasks, so that an id is left for each of them. `IdsInv` says
that ids are given once, that rows and clients stand in the order of theirs, and that
a client's row is not closed before its one message is taken; with it every step adds
a row, changes an open one but for its id, or removes a finished one, which is what
`RowsOnlyAdvance` needs.

`OneRowPerTask` takes three more. `EventsInv`: the channel holds events of the running
server only, of each task one start and one end at most, in this order, and the end of
every task that has ended while its start waits. `PlacedInv`: a row of the running
server is followed by none of an earlier one. `Alike`, the property itself, then holds
through a closing event, which is the hard case: the event knows two names only and
takes the newest open row that fits, so that it may close the row of another task, and
rows of earlier servers that fit may be open for ever. The two halves of the property
are what survives. An origin `o` whose row no other event fits loses a row only to an
end of one of its own tasks, which takes that task from `Unfinished(o)` as well: the
rows stay at least as many. And if `o` is found in no other target, the end of one of
its tasks, which makes the tasks one fewer, closes a row of `o` if there is one: either
the running server has no open row of `o` and there is nothing to show, or by
`PlacedInv` the newest that fits is of the running server too, and the rows are one
fewer as well. What other events do to the rows of `o` can only make them fewer.

`OptionsProofs`, `TransferProofs` and `SequenceLemmas` hold the lemmas about operators:
that what the server settles on is legal and what the client adopts from its OACK
agrees with it; that queues stay queues of their packets under every fault, and what
`Written` does to a file; what removing an element does to the others, and how many
elements of a sequence are in a set when one is appended, changed or removed, and what
is left in a queue.

**Only model-checked**: the liveness properties (`Terminates`,
`EndsAsTheFileDecides`, `RowsFinish`, `LogTellsTheTruth`, ...), which are beyond this
prover; bytes and targets (`Wire`), where what the recursive conversions compute would
take an induction over data.

## 6. Plan

Done: negotiation down to its bytes, GET and PUT with deferred writes, the PUT with
clocks, the GUI's state; the proofs of the safety properties of GET, PUT, the PUT with
clocks and the GUI. Next: the GET with clocks.

**Not modelled**, for good: drawing, dialogs, fonts and the firewall rule (no state
of their own that a property could be about); the command line, which calls `get`,
`put` or `serve` once; the system resolver and the path arithmetic of
`sanitize_path`, which ask the operating system: of the latter the models keep that
a name may be refused without an answer.
