# Verification of ksp-share

`ksp-share` (`src/`) shares KSP craft files between two computers: a sender
offers one `.craft` file, a receiver fetches it over plain TCP or over an iroh
QUIC stream and stores it in its KSP install.  The sender can be found on the
LAN by mDNS, or by a ticket.

This directory holds TLA+ models of that code, TLC configurations that check
them on small instances, and proofs for every value of the constants that the
TLA+ proof system checks.  Line numbers below refer to `src/src/`.

## 1. Inventory

| Component | Source | State | Operations | Interacts with |
|---|---|---|---|---|
| Protocol messages, handshake | `engine/handshake.rs`, `engine/mod.rs`, `craft/metadata.rs` | none | `local_hello`, the message variants | both sessions |
| Sender session, TCP | `engine/sender.rs` 51-135 | place in the script, `offset` | send HELLO, META, DATA, EOF, DONE; await HELLO, READY, VERIFY | receiver session, framing |
| Receiver session, TCP | `engine/receiver.rs` 60-238 | place in the script, `metadata`, `buffer`, target file | await HELLO, META, DATA, EOF, DONE; send HELLO, READY, VERIFY, ERROR; prompt; save | sender session, framing, KSP install, user, disk |
| Sessions over QUIC | `engine/quic.rs` | as above | as above, HELLO in the other order, explicit waits at the close | `transport/p2p.rs` |
| TCP framing | `transport/tcp.rs` | bytes read of a frame | `send_frame`, `recv_frame` | sessions, sockets |
| QUIC framing and endpoint | `transport/p2p.rs` 223-381 | endpoint, connection | `bind`, `accept_one`, `dial`, frame functions | iroh |
| Peer tickets | `transport/p2p.rs` 1-222 | none | `from_addr`, `to_addr`, `encode`, `decode` | command line |
| Connecting | `engine/sender.rs` 14-49, `engine/receiver.rs` 18-58 | listener | bind, accept one, dial | sessions |
| LAN discovery | `transport/mdns.rs` | announcement on the air; shares found | `announce`, drop, `browse`, `watch` | mDNS daemon, command line |
| Command line flows | `cli.rs` | none of its own | `send`, `receive`, `list`, `discover`, `config` | everything |
| Craft loading | `craft/mod.rs` | the file | `CraftFile::load`, `sha256_hex` | sender |
| Craft header parser | `craft/parser.rs` | none | `parse_metadata` | craft loading |
| KSP install | `ksp/detector.rs`, `ksp/paths.rs` | directory listing | `detect`, `find_blueprint`, `list_blueprints` | command line, receiver |
| Configuration | `config.rs` | the config file | `load_or_default`, `load_from` | command line |
| Errors, entry points | `error.rs`, `main.rs`, `lib.rs` | none | | everything |

**How they interact.**  A run of `send` loads a craft file, binds a listener and
announces it (or dials, or prints a ticket), takes *one* connection and runs the
sender session on it.  A run of `receive` finds an address (flag, mDNS, ticket)
or listens itself, and runs the receiver session.  The two sessions are
sequential programs that share nothing but the connection: a frame in each
direction at a time for most of the script, a window of DATA frames in the
middle.  The receiver also waits for its user and for its disk.

**What is hard.**  The program has no threads of its own that share memory.  Its
hard behaviour is distributed: the two ends run at different speeds; either
may crash, the connection may be cut at any frame, a close may destroy frames in
flight (differently on TCP and on QUIC), the file is saved after the last
message, and no read has a timeout.  Discovery adds caches that go stale and
ends that both wait.  Files are read and written without locks or temporary
files, so two runs on one computer meet in the middle of a blueprint.  Names,
headers and tickets are text taken apart by hand, cut at fixed lengths and by
their users.

**What makes each component correct.**

* Sessions: "Sent" is printed only when the receiver holds the whole file; the
  file is written only after verification and confirmation, and is then the
  sender's file or a prefix of it; nothing of the file moves before the user
  agrees; the two ends never lose their place in the script; they agree on how
  the session ended; they end.
* Framing: what is read is what was written, frame by frame; a broken stream
  gives an error, never a shorter message.
* Connecting and discovery: a receiver that picks a share gets that share's file;
  an end that waits can be reached; an announcement lives no longer than its
  sender.
* Tickets: `decode` inverts `encode`; a damaged ticket is refused or still names
  its sender; one of those who hold a ticket is served, and the others are told.
* Craft header: what KSP wrote within the first 8 KiB is read as it was written,
  and nothing is read that it did not write.
* KSP install and saving: a blueprint arrives whole, under its name and in its
  hangar, is found there by its name (unless only the case of letters tells it from
  another), and nothing else on the disk changes.

## 2. The modules

| Module | Models | Extends / instantiates |
|---|---|---|
| `Protocol` | craft files, metadata, chunks, the messages | |
| `Session` | one session, both ends, both transports, faults | `Protocol` |
| `Transfer` | abstract: what a transfer promises | |
| `SessionProperties` | properties and inductive invariant of `Session` | `Session`, `Transfer` |
| `SessionProofs` | theorems about `Session` | `SessionProperties`, TLAPS |
| `ScriptProofs` | that the two ends of `Session` follow one script | `SessionProofs` |
| `Framing` | one direction of a connection, byte by byte | `FrameChannel` |
| `FrameChannel` | abstract: the channel of whole frames | |
| `FramingProofs` | theorems about `Framing` | `Framing`, `TextProofs` |
| `Rendezvous` | who finds, dials and accepts whom on a LAN | |
| `RendezvousProperties` | properties of `Rendezvous` | `Rendezvous` |
| `RendezvousProofs` | theorems about `Rendezvous` | `RendezvousProperties`, TLAPS |
| `Text` | the operations of Rust's `str` in use | |
| `TextProofs` | lemmas about them: trimming, prefixes, parts strung together; induction over texts and folds | `Text`, TLAPS |
| `CraftText` | the header parser, the ship type from the path | `Text` |
| `CraftFile` | loading one craft file, as KSP wrote it | `CraftText` |
| `CraftFileProofs` | theorems about `CraftFile`, lemmas about the parsers | `CraftFile`, `TextProofs` |
| `Ships` | the craft files of several computers, and the runs that read and write them | `CraftText` |
| `ShipsProperties` | properties of `Ships` | `Ships` |
| `ShipsProofs` | theorems about `Ships` | `ShipsProperties`, `TextProofs`, TLAPS |
| `Ticket` | `PeerTicket`: encoding, decoding, escapes | `Text` |
| `Peering` | who is given which ticket, dials and is served | `Ticket` |
| `PeeringProofs` | lemmas about `Ticket`, theorems about `Peering` | `Peering`, `TextProofs` |
| `MCSession`, `MCFraming`, `MCRendezvous`, `MCCraftFile`, `MCShips`, `MCPeering` | the small instances that TLC checks | the above |

The parts fit on top of each other: `Framing` shows that the byte streams
give what `Session` takes for granted (`FrameChannel`: whole frames, in order,
once, a lost tail); `Session` shows that one connection gives what `Transfer`
promises; `Rendezvous` and `Peering` treat a session as one step that ends some
time, which is what `Session`'s `Termination` says; and in `Ships` a session
hands the receiver what its sender has loaded, or fails, which is `Transfer`.
`CraftText` is what a sender of `Ships` makes of the bytes it has read, and
`CraftFile` compares it with what was written into them.

In each module a definition named after a bug (`AnyLength`,
`ReceiverDeclineSilently`, ...; marked "seeded fault") stands next to the one it
could replace.  No specification uses them: they document which mistake each
property would find.

### Session

The two ends are sequential programs.  `sender` and `receiver` hold the control
point each has reached (a place where the code sends, receives, asks or touches
the disk) or the result its session function returned.

| Point | `sender.rs` | `quic.rs` | | Point | `receiver.rs` | `quic.rs` |
|---|---|---|---|---|---|---|
| `sendHello` | 52 | 116 | | `recvHello` | 61-82 | 194-216 |
| `recvHello` | 53-68 | 99-115 | | `sendHello` | 83 | 192 |
| `sendMeta` | 70 | after HELLO | | `sendError`, `mismatched` | 72-81 | 203-215 |
| `recvReady` | 71-87 | same order | | `recvMeta` | 85-93 | same order |
| `sendData` | 99-111 | | | `prompt` | 95, 183-201 | |
| `recvVerify` | 114-128 | | | `sendDecline`, `declined` | 96-105 | |
| `sendDone`, `finish` | 129-134 | 68-73 | | `sendReady` | 107-113 | |
| | | | | `recvData` | 125-146 | |
| | | | | `sendVerify`, `badSum` | 149-157 | |
| | | | | `recvDone` | 158-166 | |
| | | | | `createFile`, `writeFile` | 168-180 | |

`offset`, `meta`, `buffer` are the code's variables, `file` is the content of
the target path, `toSender` and `toReceiver` are the frames in flight, `setup`
holds the inputs (craft file, old file, versions, `--yes`, whether a target
directory is known, transport).

*TCP and QUIC* differ in three things, all read off `quic.rs`: the receiver
opened the stream and says HELLO first; the sender awaits the end of the
connection before it returns (line 71); and dropping a connection discards
what the peer has not yet received, where a TCP close delivers it unless the
closing end left input unread (`Deliverable`).

*Faults* (`Faults` selects them): either process dies at any point, also while
it writes the file (`crash`); the connection fails and both ends learn of it,
any tail of the frames in flight being lost (`reset`); the payload of a DATA
frame is altered on TCP (`corrupt`); creating or writing the file fails, writing
after any prefix (`disk`); standard input fails (`stdin`).

*Abstractions*: names, ship type, KSP version, platform and client strings, the
reason of READY and the progress bars steer nothing and are left out, as is ACK,
which no code sends; SHA-256 is an injective function.

*Limits*: a network that falls silent without an error is not modelled (the code
has no timeout, so `Termination` would not hold); corruption touches only DATA
payloads; a crash is that of a process, not of the machine, so what was written
stays.

### Framing

`SendFrame`, `Write`, `WriteFails`, `Close` are `send_frame` (`tcp.rs` 19-31,
`p2p.rs` 236-253), whose two `write_all` calls are any number of partial writes.
`Read`, `ReadEof` are `recv_frame` (`tcp.rs` 33-47, `p2p.rs` 257-274), whose two
`read_exact` calls are any number of partial reads.  A message is its bincode
serialisation.  Either process may die at any byte (`Cut`, `ReaderCrash`), and the
connection may be cut with the loss of any tail of what is in flight.  `sent` is a history variable.

### Rendezvous

Each process is one run of `send` or `receive`; its command line is its `Plan`.

| Action | Code |
|---|---|
| `Bind` | `sender.rs` 28-32 (before announcing), `receiver.rs` 43-45; port 0 (`AnyPort`) is any free one, and `local` is what `local_addr` says |
| `Announce`, `Unregister` | `cli.rs` 171-198, 200 with `mdns.rs` 69-75 |
| `Dial` | `sender.rs` 38-41, `receiver.rs` 38-42 |
| `Accept`, `QueueReset` | `sender.rs` 42-46, `receiver.rs` 46-50: the listener is dropped at the end of the match arm |
| `SessionEnds` | the return of `run_session` |
| `Browse`, `Resolve`, `Deadline`, `Pick` | `mdns.rs` 124-149, `cli.rs` 251-286; without an mDNS daemon `Browse` ends the run |
| `Crash` | death of the process, Ctrl-C included: there is no handler |

Not in it: the p2p flows, `watch`, a missing install or craft file (the run
ends before it has done anything), addresses a host cannot be reached at.
The mDNS daemon is external: it renames a service whose name is taken, a fresh
daemon has an empty cache, and what was announced by a dead process no longer
answers.

### Text, CraftText and CraftFile

A text is a sequence of characters in which a word that matters (a key, an
extension, the scheme of a ticket) is one character: the parsers look for
words, and what they do between them does not depend on how a word is spelt.

| Definition | Code |
|---|---|
| `Trim`, `TrimEnd`, `Split`, `EqIgnoreCase`, ... | the `str` operations of those names |
| `HeadOf`, `InvalidCraft`, `ParseMetadata` | `parser.rs` 26-62 |
| `LooksLikeKsp2`, `StripKey`, `CfgField` | `parser.rs` 64-89: the first line that begins with the key, at whatever depth |
| `JsonField`, `JsonValue` | `parser.rs` 91-104: the first occurrence of the quoted key, if a colon follows |
| `ShipTypeFromPath`, `Metadata` | `craft/mod.rs` 27-62 |
| `Load` | `CraftFile::load` |

A file is a sequence of bytes in which a character of two bytes is `LEAD`,
`CONT`; that is enough for the cut after `HEAD_BYTES` to fall within one.
`CraftFile` starts from the fields KSP wrote, in any order, and from the path,
and says what load must find.  What the games write is outside the repository:
`WrittenBy` says what is assumed of it, after the examples in the tests of the
parser (`parser.rs` 112-136).  A KSP1 value lies on one line, and its key is no blank and no bracket;
a KSP2 value holds no quote, and if it is not in quotes nothing that ends it.  Quotes escaped
by a backslash are left out: line 98 ends the value at them.

`Readings(key)` is what may be read of a key, given where its field lies: the value
when the field ends within the part that is parsed (`Visible`); what is left of it when it
is `Cut`, which in quotes is nothing; nothing when a value before it reads like the key
(`Hidden`: line 93 finds that one first, and no colon follows).  The properties speak
of readings, so that the hangar of a file that says both `type` and `shipType` is stated
for every way the two may be cut.

### Ships

The disks of several computers (`files`, functions from paths to texts), and any
number of runs of `send` and `receive` on them.

| Action | Code |
|---|---|
| `Resolve` | `cli.rs` 440-447 with `detector.rs` 27-100, `paths.rs` 26-59: the file that the target denotes in the working directory (`IsLocal`), or the blueprint of that name in the first install with a `Ships` directory (`Blueprints`) |
| `Read`, `Load` | `craft/mod.rs` 27-42: `fs::read` is any number of partial reads; the ship type is taken from the path that load is given (`Given`), which for a local file is the target as typed, without the directories above it |
| `ReadFails` | the errors of `read_dir` (`detector.rs` 74-75) and of `fs::read` (`craft/mod.rs` 28-29) |
| `Start` | `cli.rs` 212-220: the install is looked for before connecting |
| `Session`, `SessionFails` | a session, as `Transfer` describes it |
| `Create` | `receiver.rs` 168-172, 203-238: target path, `sanitize`, `File::create` |
| `Write`, `Report` | `receiver.rs` 173-180: `write_all` is any number of partial writes |
| `DiskFails`, `Crash` | errors of the disk, the death of a process |

`path`, `bytes`, `meta`, `pos` are the locals of a run, `peer` and `before` are
history variables.  `quic.rs` 289-355 has the same lines as `receiver.rs`.

*Abstractions*: file systems tell names apart by case (on one that does not,
names that differ in case only are one file); directories are not files of their
own, and `read_dir` sees one moment; the order within a directory is left open, so
`find_blueprint` may return either of two twins (`FoundAgain` says when there are none).
An absolute target is one that is typed in the root directory.

### Ticket and Peering

`Ticket` has `from_addr`, `to_addr`, `encode`, `decode` and the percent escapes of
`p2p.rs` 52-221 character by character, as a ticket may be cut anywhere.  The loops
over addresses and over the fields of a query are folds (`WithAddr`, `AddField`); a
field that is refused makes the whole ticket None, as the `?` of the code does.  `Chars` are
the characters, among them the endpoint ids, the words of a ticket and the hex digits
(`TicketAssumption`); an address is `Valid` if it is in the form in which iroh and std print it.  URLs
are ASCII, so the UTF-8 check of `percent_decode` (line 200) never fails and is left
out.  `RelayUrl` and `SocketAddr` are external: `ParseRelayUrl` and `ParseSocketAddr`
say what they accept of the texts in use.

| Action of `Peering` | Code |
|---|---|
| `Online` | `quic.rs` 40-48, `cli.rs` 299-320: the endpoint is bound, waited for and put into a ticket |
| `Dial` | `cli.rs` 335-360, `quic.rs` 82-90: the ticket, perhaps cut, is decoded and dialled |
| `Accept` | `quic.rs` 58-66, `p2p.rs` `accept_bi`: one connection is taken, even if its other end has given up |
| `SenderDone`, `SenderCloses` | `quic.rs` 178-183, 68-73: DONE is sent and "Sent" printed, then any end of the connection (`Gone`) will do |
| `ReceiverDone`, `Save` | `quic.rs` 292-314: DONE is read, and the file saved, or not |
| `SenderFails`, `ReceiverFails`, `ConnectionFails` | `quic.rs` 67-68, 86-87: an end fails with the other, or by itself |
| `Closed` | `cli.rs` 318-327: the endpoint is closed whatever the result |
| `DialFails`, `DialTimesOut` | `connect` returns an error |
| `SenderCrash`, `ReceiverCrash` | death of the process |

iroh finds an endpoint by its id and proves that id; it is external.  A session is here the
part up to DONE, which both ends are in, and the part after it, in which they are on their
own: the sender has said "Sent" (`done`) and waits for the connection to end, and the
receiver, if DONE reaches it, creates and writes the file, which may fail.  So a sender that
ends with "Sent" knows that its receiver has verified the file (`SentMeansVerified` of
`Session`), not that it has saved it.

## 3. What is checked

| Run | Module, configuration | Shows |
|---|---|---|
| `session_safety` | `MCSession`, `SessionSafety.cfg` | `TypeOK`, `InductiveInv`, `SavedIsSent`, `SavedMeansSent`, `SentMeansVerified`, `ConsentBeforeData`, `NothingUnread`, `ScriptKept`, `VerdictsAgree` and the refinement `ImplementsTransfer`, both transports, every fault |
| `session_liveness` | `MCSession`, `SessionLiveness.cfg` | `Termination`, `Delivery`, every fault |
| `framing_safety` | `MCFraming`, `FramingSafety.cfg` | `Aligned`, `LimitsAgree`, `AllReceived`, the refinement `ImplementsFrameChannel` |
| `rendezvous_safety` | `MCRendezvous`, `RendezvousSafety.cfg` | `Paired`, `ServedAsPicked`, `RefusedOnlyIfTaken`, `AnnouncedByLiving` |
| `rendezvous_liveness` | `MCRendezvous`, `RendezvousLiveness.cfg` | `EveryoneSettles`, `NoMutualWait` |
| `ships` | `MCShips`, `Ships.cfg` | `OnlyWhatWasReceived`, `ArrivesWhole`, `KeepsItsName`, `FoundAgain`, `HangarKept` |
| `peering` | `MCPeering`, `Peering.cfg` | `RoundTrip`, `SamePeer`, `NoHalfEscape`, `ServedOnce`, `DialEnds` |
| `craft_fields` | `MCCraftFile`, `CraftFields.cfg` | `FieldsRead`, `NothingInvented`, `HangarKnown` |
| `craft_cut`, `quic_decline`, `quic_version`, `mdns_version` | see section 5 | the code does not do what a document says |

What each property says is written above its definition.

**Bounds.**  *Session*: bits for bytes, at most five of them, two to a chunk, so
that a file takes no DATA frame, exactly one full frame, or three with a short
last one; two frames in flight per direction (one in the liveness run), so that
a sender blocks and a window of frames can be cut anywhere; versions 1 and 2;
the answers "" (also the end of standard input) and "n".  More chunks repeat the
same loop step, and the theorems of section 4 cover every size.  *Framing*: bits,
a header of two of them (so lengths up to three), a limit of two, up to three
messages out of empty, short, longest and too large, a stream of three bytes,
smaller than the largest frame.  *Rendezvous*: two senders and two receivers on two
hosts and two ports, sixteen combinations of command lines that share addresses, names and
roles, one sender leaving its port to the kernel in some; two contenders for each role are
what every conflict in the code needs.
*Ships*: two senders and two receivers on three computers, with two installs,
one and none; names with dots, reserved characters and twins in case, within a hangar too, files of
up to four bytes, an install below a directory called SPH, files shared by their names from
a directory of their own and from within a hangar, and by a path that names the hangar; two receivers that
save the same name, a sender that reads what a receiver saves, and each can be
stopped between any two bytes.  *Peering*: two senders and two receivers, five
sets of addresses with every kind of address, a relay URL that looks like the
rest of a ticket, and tickets cut at every character; either end may fail or die before
and after DONE, and the disk of a receiver.  *Craft files*: every
sequence of up to three fields out of eight (KSP1) or ten (KSP2), four paths, a
header of 23 bytes, so that the third field is seen, cut or missed, and the cut
falls before, within and behind a value with quotes and without.  The
functions look at a field by itself or at two of them (the first of a key, and
one that hides it); a third moves them across the cut.  `CraftRefused.cfg` has 20
bytes, where the cut falls within a character.

**Fairness.**  `Session`: each of the two programs keeps running
(`WF` of its steps as a whole: a sequential program has one next step), which
includes that the user answers the prompt and that the transport moves frames
or reports a failure.  No fault is fair.  `Framing`: both programs run.
`Rendezvous`: every process runs, its user answers, a query that is not lost is
answered before the browsing time is over (milliseconds against seconds, 4 s by
default); sessions end, except that two receivers, both waiting for HELLO, do not.
`Peering`: connections are accepted, each end of a session goes on and notices the end of
the other (iroh closes a connection whose peer is silent), a receiver saves, and a dial
that cannot succeed is noticed; going online is not fair, because `bind_p2p` waits for it without
end, nor is any fault.  `Ships` and `CraftFile` state no liveness.

**Deadlock** is checked in `session_safety` and the two QUIC runs, where
`Terminated` marks the only legitimate end.  The other configurations say
`CHECK_DEADLOCK FALSE` because the programs end, or wait for a connection that
may never come; `Termination`, `AllReceived`, `EveryoneSettles` and `DialEnds` say
where they may stop.

## 4. What is proved

Every theorem holds for every value of its module's constants, under the
assumptions that the module names.

| Module | Theorem | Statement |
|---|---|---|
| `SessionProofs` | `SessionInductive` | `Spec => []InductiveInv` |
| | `SessionTypeOK`, `SessionSavedIsSent`, `SessionSavedMeansSent`, `SessionSentMeansVerified` | the invariants of those names |
| | `SessionImplementsTransfer` | `Spec => ImplementsTransfer` |
| `ScriptProofs` | `SessionConsentBeforeData`, `SessionNothingUnread`, `SessionScriptKept`, `SessionVerdictsAgree` | `ConsentBeforeData`, `NothingUnread`, `ScriptKept`, `VerdictsAgree` |
| `FramingProofs` | `FramesInductive`, `FramingTypeCorrect` | `TypeOK` and the inductive `FramesKept` |
| | `FramesAligned`, `FrameLimits` | `Aligned`, `LimitsAgree` |
| | `FramesRefine` | `Spec => ImplementsFrameChannel` |
| `CraftFileProofs` | `CraftInductive`, `CraftTypeCorrect` | `TypeOK` and the invariant `CraftInv` |
| | `FieldsAreRead`, `NothingIsInvented`, `HangarIsKnown` | `FieldsRead`, `NothingInvented`, `HangarKnown` |
| `RendezvousProofs` | `RendezvousTypeCorrect`, `OneConnection`, `PickedIsServed`, `NeverTooEarly`, `AnnouncementsEnd` | `TypeOK`, `Paired`, `ServedAsPicked`, `RefusedOnlyIfTaken`, `AnnouncedByLiving` |
| `ShipsProofs` | `ShipsTypeCorrect`, `DiskKept`, `SavedIsShared`, `NameKept`, `SavedIsFound`, `HangarStays` | `TypeOK`, `OnlyWhatWasReceived`, `ArrivesWhole`, `KeepsItsName`, `FoundAgain`, `HangarKept` |
| `PeeringProofs` | `TypeCorrect`, `TicketsRoundTrip`, `CutNamesSender`, `HalfEscapesRefused`, `OneIsServed` | `TypeOK`, `RoundTrip`, `SamePeer`, `NoHalfEscape`, `ServedOnce` |

**Session** (`SizeAssumption`, `CollisionFree`, `SessionAssumption`), for every byte set,
file, chunk size, channel capacity, set of transports, answers and faults.
"The file is the sender's" is not inductive: it depends on what
the receiver verified, which depends on the META it was given, and "Sent"
depends on a VERIFY frame that is in flight.  `InductiveInv` therefore adds what
the frames in flight may say (`InFlight`: META describes the craft file, DATA
lies within it, DONE is in flight only after "Sent", a good VERIFY only when
`Verified`), that `Verified` cannot be undone, and where the file is empty.  The
proof goes by actions, and splits the invariant in two halves, the state of the
two programs (`Core`) and of the channels (`Channels`).  A channel changes by
appending one allowed frame, by losing its first frame or its tail, or by the
alteration of one DATA payload, and each of these has a lemma.  The refinement
then follows step by step: each action of `Session` is a step of `Transfer` or
leaves its variables unchanged.

`ScriptProofs` needs to know where the two ends are relative to each other.  For
`ConsentBeforeData` it is enough (`Consent`) that, while the receiver has not agreed, no
READY(TRUE) is in flight and the sender has not passed the point that awaits it.
For the other two, `Script` numbers the messages of each direction: HELLO leads from 0
to 1, META to 2, each DATA on by its bytes, EOF to 3 + n and DONE to 4 + n; READY(TRUE)
to 2 and VERIFY(TRUE) to 3 the other way.  Each control point then is a position in
reading and one in writing, and the frames of a channel follow each other from
where its reader is to where its writer is (`Line`), each needing an answer that the
other end has given (`Needs`).  What an end finds at a point (`SenderFindings`,
`ReceiverFindings`) is then forced: the message it expects, or nothing.  A cut channel is a
prefix and keeps the numbering; an altered DATA keeps its place; only the ERROR
between different versions leaves the script.

`VerdictsAgree` compares how the two ends returned, so its invariant must tie each
result to what the other end has said or will read.  `Settled` has a case for each
result; `AllSaid` says which answers may be on their way to the sender from where the
receiver is, which keeps a refusal in flight until it is read (TCP) or destroyed with
the connection (QUIC); `Genuine` that over QUIC, where nothing is altered, the buffer
and the DATA in flight are slices of the craft file, so that no checksum fails there.

**Framing** (`FramingAssumption`), for every byte and header size, limit and stream.  The
invariant is about the frames as a whole, the code about single bytes: `Tracked`
says that the bytes read of the frame at hand, those in flight, those still to be
written and those lost are together the frames that are not yet delivered.  That a read of some bytes
keeps this needs where the first frame ends in them (`HasHeader`, `HasFrame`), and so that
`from_be_bytes` undoes `to_be_bytes`, which is proved by induction over the digits of
a header (`Weight` are the powers of the base).  `Within` bounds every frame the writer
begins, whence `LimitsAgree`.  For the refinement each read that completes a frame is a
step of `FrameChannel`, every other one a stutter.

**Rendezvous** (`RendezvousAssumption`), for any number of processes, hosts, ports, command
lines and faults.  A receiver acts on what it has been told, so the invariant
needs what stays true of it: a share's address is its sender's, and its sender
never goes back to before it was announced (`Shares`, with `OnwardsStep`: no run
goes back); who queues after a pick queues at the share's address, and with its
sender if that still listens (`Queues`); nobody is in two queues (`OneQueue`); where
a process can be follows from its command, and one address has one listener
(`Places`), whose `local` is the address it has bound, and no longer the one it asked for.  That names on the air are unique needs a free one to exist, which is
the pigeonhole argument of `FreeNumber`.

**Ships** (`ShipsAssumption`, `HeadAssumption`), for any alphabet, names, disks, installs, command
lines and faults.  `Stages` says what each run knows where it is (a receiver that
writes has created its file, and has what its peer sent); `Loaded` that what a
sender has read of a file nobody has written is the beginning of it; `Named` that
the path of a receiver has the name in the metadata.  The heart is what one write
among several writers does to a file (`ContentsWrite`): each place holds what one
of them received for it, or a NUL.  Types need that whatever the parsers cut out
of a text is a text (`TextProofs`), and the name theorem that `sanitize` leaves a
plain name alone.  `FoundAgain` follows from `Named`, from what `find_blueprint` picks
in two hangars (`FoundIn`), and from what else it may find there, which are twins only
(`OnlyTwins`).  `HangarKept` needs that the path load was given is the end of the path of
the file (`GivenEnds`, `EndOfPath`), and where the hangar comes in either (`HangarOnPath`,
`DirectoryOnPath`).

**Peering** (`PeeringAssumption`, `TicketAssumption`), for every alphabet, all lists of
addresses and every number of processes.  `Connections`, for `ServedOnce`: before its
first connection a sender has served nobody; who waits for it, or was served, has its
address and has dialled; a sender that has sent DONE has not lost its session, and only the
receiver it served can be past DONE.  The others follow from `TicketInv` (what was pasted is the beginning
of a ticket, the peer is what it decodes to, and only who has one goes on) and from
what `decode` makes of every beginning of an encoded ticket (`TextDecodes`).  That one is
shown from the inside out, each time for the whole and for what a cut leaves of it:
the escapes of a value (`PercentRoundTrip`, by induction over its characters), an address
(`NamedIs`: its beginning is refused or read as one that differs by its end), a field
(`FieldReads`), the fields of a query (`FieldsReadBack`, by induction over the addresses: a
field more is encoded after and read after those before it), the ticket.  A ticket names
what `Told` says (`TicketNames`): of several relays the last, which is the fold of `from_addr`.

**CraftFile** (`CraftFileAssumption`, `HeadAssumption`), for every craft that KSP writes
(`WrittenBy`), with any number of fields, every path and every length of the header that is
parsed.  The invariant `CraftInv` is short: what is loaded is what `load` computes.
The work is what the parsers find in a front of a text of which only the parts are known.
`FlatLaid` says where each part of a text strung together lies; from that, `Lines` and
`Ksp2Laid` say which character stands at each place of the header.  For KSP1, every line
`CfgField` looks at is one of the craft's or the front of one (`LineStarts`, `LineRead`), and what
`StripKey` finds in a front of a line begins the value (`LineIs`, `TrimPrefix`: what is trimmed
of a prefix is a prefix of what is trimmed).  For KSP2, `QuoteAt` lists the places where a
quote may stand, so that a key in quotes is found at a field of that key or at a value that is
the key, and nowhere else (`OccursWhere`); which of them comes first decides between read and
hidden (`FoundWhere`); behind a key, `FieldReads` goes through what may be left of
the colon, the blank and the value.  `Ksp1Reads` and `Ksp2Reads` then say that what is read is
in `Readings(key)`, `Ksp1IsCfg` and `Ksp2IsJson` that the generation is told, and
`MetadataIs` puts them together.

**Induction over data.**  What a fold or a recursive function does is stated element by
element (`FoldGrows`, `EncodeGrows`, `SplitGrows`, `TicketGrows`, ...) and used with induction
over sets (`SetInduction`, `SeqInduction` of `TextProofs`): the elements for which a
statement holds form a set, which needs no operator as a parameter.

**Only model-checked.**  The liveness properties, which need fairness and ENABLED:
`Termination`, `Delivery`, `AllReceived`, `EveryoneSettles`, `NoMutualWait` and `DialEnds`.
Every safety invariant of a passing run is a theorem, and both refinements are.

## 5. Where documents and code disagree

* **A refusal over QUIC may get lost** (`quic_decline`).  `quic.rs` 1 promises
  to "mirror the synchronous TCP variants one-to-one".  The receiver sends
  READY{accept: false} and returns at once (line 228), which drops the
  connection; the sender may see a lost connection and never learn of the
  refusal.  Over TCP it always does (`VerdictsAgree`).
* **No ERROR for another version over QUIC** (`quic_version`).
  `docs/protocol.md` 54-56: "if the versions disagree the receiver answers with
  `Error`".  The QUIC sender reads HELLO first (line 110) and leaves without a
  word; the receiver reports a lost connection.
* **A valid craft file is refused** (`craft_cut`).  `parse_metadata` cuts the file
  after 8 KiB and reports "not valid UTF-8 near header" (`craft/parser.rs` 27-28)
  if the cut falls within a character, as it may in a long description in
  any script but Latin; line 15 calls the scan "tolerant".
* **The announced version is not looked at** (`mdns_version`).
  `docs/discovery.md` 34-35: it "lets the receiver bail out early".
  `discover_one` drops it (`cli.rs` 269).

Met while modelling, without a run: an announcement outlives its listener, so a
second receiver may be refused or reach another process on the same port
(admitted by `ServedAsPicked`); two receivers that reach each other wait for
ever (admitted by `Settled`); over QUIC as over TCP "Sent" comes before the receiver has
touched its disk, and says nothing of the save (`SavedMeansSent`, `ServedOnce`); a file without
a `type` that is shared by its name alone from within `Ships/SPH` is saved in VAB, because load
sees the path as it was typed, and so is one whose path has a directory called VAB above the
install (the conditions of `HangarKept`); of two blueprints whose names differ in case only
either may be found for the other (admitted by `FoundAgain`); two receivers that save one name at the same time
leave a mixture on the disk, and a file shared while it is saved is shared
torn, each with "SHA-256 OK" at the end (admitted by `OnlyWhatWasReceived` and
`ArrivesWhole`); two blueprints whose names differ in reserved characters only
are saved as one file (`KeepsItsName` speaks of plain names); a `type` without quotes that the
8 KiB cut short is read as an empty or a shortened type, so that `shipType` is not looked at
(`HangarKnown` says which hangar is reported then); the documented configuration keys `port` and
`ksp_root` are read but never used (`config.rs` 18-21).

## 6. Plan, and what is not modelled

Done: every component that keeps state or decides what happens to it.  What is
left, in this order:

1. Composition: the runs of `Rendezvous` with the commands of `Ships` in place of
   `SessionEnds`, to state which blueprint ends where when addresses are reused.

Not modelled:

* **Configuration** (`config.rs`): a file of optional scalars, read once by the
  command that prints it and never written.  What it reads steers nothing.
* **Errors and entry points** (`error.rs`, `main.rs`, `lib.rs`): no state; the error
  variants are the results of the sessions and runs.
* `watch` and `list` only print.  `instance_label` (`mdns.rs` 225-240) makes a host name
  out of a blueprint's; different blueprints may get the same one, and
  `docs/discovery.md` 20-21 calls it unique.  Nothing in `src/` looks at it: whether two
  such hosts are told apart is up to the mDNS daemon, which renames in conflicts.
* Argument parsing (clap), the iroh endpoint, the mDNS daemon, the file system and
  the sockets are external: their models say what `src/` relies on.
