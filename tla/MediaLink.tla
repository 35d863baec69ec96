----------------------------- MODULE MediaLink -----------------------------
(***************************************************************************)
(* The TCP link from the core process (MediaClientInterface) to the media  *)
(* process (MediaServerInterface), over the lives of both: connecting      *)
(* until it succeeds, registering, requests and responses, a loss on       *)
(* either side.                                                            *)
(*                                                                         *)
(* Every message is two halves on its stream; a read takes any number of   *)
(* them, and all it takes is parsed as one message.  Both peers are on one *)
(* host, so an attempt to connect is decided by the kernel when it is made *)
(* and its callback runs before the timer's next.                          *)
(*                                                                         *)
(* MediaMessage logs through a logger that no constructor in use sets,     *)
(* whenever a message is made, to be sent or from what was read.  That is  *)
(* undefined: one build ends the process there, another goes on.           *)
(***************************************************************************)
EXTENDS Naturals, Sequences

CONSTANTS
  MaxDescriptors,  \* sockets that the core process can open
  Numbers,         \* those of the requests that are followed
  NoLink

ASSUME MaxDescriptorsAssumption == MaxDescriptors \in Nat
ASSUME NoLinkAssumption == NoLink \notin Nat

VARIABLES
  core,         \* has this life of the core process ended?
  media,        \* does the media process run?
  connectTimer, \* does the timer that connects run?
  attempt,      \* the link whose on_connect is to be called, refused or none
  descriptors,  \* sockets of the core's attempts; none is ever closed
  clientConnection,
  links,        \* connections that were established, with what is under way
  asked,        \* history: requests written, by their numbers
  answered,     \* history: responses handled by the core
  reads,        \* history: the kinds of reads there were
  logEnds       \* of the build: does a call through a null logger end the process?

vars == <<core, media, connectTimer, attempt, descriptors, clientConnection,
          links, asked, answered, reads, logEnds>>

coreVars == <<connectTimer, attempt, descriptors, clientConnection>>

Halves(number) == <<[number |-> number, half |-> 1], [number |-> number, half |-> 2]>>

\* Start of both programs: the timer runs, nothing is connected.
Init ==
  /\ core = [life |-> 1, running |-> TRUE]
  /\ media \in BOOLEAN
  /\ connectTimer = TRUE
  /\ attempt = "none"
  /\ descriptors = 0
  /\ clientConnection = NoLink
  /\ links = <<>>
  /\ asked = <<>>
  /\ answered = <<>>
  /\ reads = {}
  /\ logEnds \in BOOLEAN

-----------------------------------------------------------------------------
(* The core process. *)

\* The process ends, and with it its side of every link.
CoreEnded == core' = [core EXCEPT !.running = FALSE]

CloseCoreSides(all) == [l \in DOMAIN all |-> [all[l] EXCEPT !.core = "closed"]]

\* try_connect, every two seconds.  With no socket left it only logs.
TryConnect ==
  /\ core.running /\ connectTimer /\ attempt = "none"
  /\ descriptors < MaxDescriptors
  /\ descriptors' = descriptors + 1
  /\ IF media
     THEN /\ attempt' = "established"
          /\ links' = Append(links, [core |-> "open", media |-> "waiting", life |-> core.life,
                                     toMedia |-> <<>>, toCore |-> <<>>])
     ELSE attempt' = "refused" /\ UNCHANGED links
  /\ UNCHANGED <<core, media, connectTimer, clientConnection, asked, answered, reads>>

\* Send: a write to a closed stream fails and is forgotten, one to a peer that
\* is gone reaches nobody.
Written(all, l, number) ==
  IF all[l].core = "open" /\ all[l].media # "closed"
  THEN [all EXCEPT ![l].toMedia = @ \o Halves(number)] ELSE all

Asked(l) == asked' = Append(asked, [link |-> l, life |-> core.life])

\* Mutant: the timer is stopped before the status is looked at.
OnConnectFailedStopping ==
  /\ core.running
  /\ \/ attempt = "refused"
     \/ attempt = "established" /\ links[Len(links)].media = "closed"
  /\ attempt' = "none" /\ connectTimer' = FALSE
  /\ UNCHANGED <<core, media, descriptors, clientConnection, links, asked, answered, reads>>

\* on_connect with a status: nothing but a log; the timer goes on.
OnConnectFailed ==
  /\ core.running
  /\ \/ attempt = "refused"
     \/ attempt = "established" /\ links[Len(links)].media = "closed"
  /\ attempt' = "none"
  /\ UNCHANGED <<core, media, connectTimer, descriptors, clientConnection, links, asked, answered, reads>>

\* A request is made, which logs, and written.
Request(l) ==
  IF logEnds
  THEN /\ CoreEnded
       /\ links' = CloseCoreSides(links)
       /\ UNCHANGED asked
  ELSE /\ Asked(l)
       /\ links' = Written(links, l, Len(asked'))
       /\ UNCHANGED core

\* on_connect without: the first request, REGISTER, is posted right away.
OnConnect ==
  /\ core.running /\ attempt = "established"
  /\ attempt' = "none" /\ connectTimer' = FALSE
  /\ clientConnection' = Len(links)
  /\ Request(Len(links))
  /\ UNCHANGED <<media, descriptors, answered, reads>>

\* PostRequest.  Before the first connection there is no stream to write to, and
\* uv_write ends the process.
PostRequest ==
  /\ core.running
  /\ IF clientConnection = NoLink
     THEN /\ CoreEnded
          /\ links' = CloseCoreSides(links)
          /\ UNCHANGED asked
     ELSE Request(clientConnection)
  /\ UNCHANGED <<media, coreVars, answered, reads>>

\* What kind of read it is that takes these halves.
KindOf(halves) ==
  IF halves[1].half = 2 THEN "within"
  ELSE IF Len(halves) = 1 THEN "cut"
  ELSE IF Len(halves) = 2 THEN "whole" ELSE "joined"

\* build_message of one read: its first message if the read starts with it and
\* holds it to the end; what follows is lost.
Built(halves) == KindOf(halves) \in {"whole", "joined"}

\* What is built logs.
MustEnd(halves) == logEnds /\ Built(halves)

\* A read that starts within a message can start with a string or a number: that
\* is parsed, and asked for its members, which ends the process.
MayEnd(halves) == MustEnd(halves) \/ KindOf(halves) = "within"

Take(s, n) == SubSeq(s, 1, n)
Rest(s, n) == SubSeq(s, n + 1, Len(s))

\* MediaClientInterface::on_read.
CoreRead(l, n) ==
  LET halves == Take(links[l].toCore, n)
      taken == [links EXCEPT ![l].toCore = Rest(@, n)]
  IN /\ core.running /\ clientConnection = l /\ links[l].core = "open"
     /\ n \in 1 .. Len(links[l].toCore)
     /\ reads' = reads \cup {<<core.life, KindOf(halves)>>}
     /\ \/ /\ ~MustEnd(halves)
           /\ links' = taken
           /\ answered' = IF Built(halves)
                          THEN Append(answered, [number |-> halves[1].number, link |-> l])
                          ELSE answered
           /\ UNCHANGED core
        \/ /\ MayEnd(halves) /\ CoreEnded
           /\ links' = CloseCoreSides(taken)
           /\ UNCHANGED answered
     /\ UNCHANGED <<media, coreVars, asked>>

\* What an end of the stream or an error finds.
CoreAtEnd(l) ==
  /\ core.running /\ clientConnection = l
  /\ links[l].core = "open" /\ links[l].media = "closed" /\ links[l].toCore = <<>>

\* Mutants: the connection is forgotten; the timer is started again.
CoreReadEndForgetting(l) ==
  /\ CoreAtEnd(l)
  /\ links' = [links EXCEPT ![l].core = "closed"]
  /\ clientConnection' = NoLink
  /\ UNCHANGED <<core, media, connectTimer, attempt, descriptors, asked, answered, reads>>

CoreReadEndConnecting(l) ==
  /\ CoreAtEnd(l)
  /\ links' = [links EXCEPT ![l].core = "closed"]
  /\ connectTimer' = TRUE
  /\ UNCHANGED <<core, media, attempt, descriptors, clientConnection, asked, answered, reads>>

\* on_read with an error: closed for good, and nothing connects again.
CoreReadEnd(l) ==
  /\ CoreAtEnd(l)
  /\ links' = [links EXCEPT ![l].core = "closed"]
  /\ UNCHANGED <<core, media, coreVars, asked, answered, reads>>

\* The operator starts the core process again.
CoreStarts ==
  /\ ~core.running
  /\ core' = [life |-> core.life + 1, running |-> TRUE]
  /\ connectTimer' = TRUE
  /\ attempt' = "none"
  /\ descriptors' = 0
  /\ clientConnection' = NoLink
  /\ UNCHANGED <<media, links, asked, answered, reads>>

-----------------------------------------------------------------------------
(* The media process. *)

\* on_connect: connections are accepted in their order.
MediaOnConnect(l) ==
  /\ media /\ links[l].media = "waiting"
  /\ \A k \in 1 .. l - 1 : links[k].media # "waiting"
  /\ links' = [links EXCEPT ![l].media = "open"]
  /\ UNCHANGED <<core, media, coreVars, asked, answered, reads>>

CloseMediaSides(all) ==
  [l \in DOMAIN all |-> [all[l] EXCEPT !.media = "closed", !.toMedia = <<>>]]

\* Mutants: the response goes to the connection accepted last; to the listening
\* stream that on_connect leaves in connectedStream.
RespondedToLatest(all, l, number) ==
  LET open == {k \in DOMAIN all : all[k].media = "open"}
      latest == CHOOSE k \in open : \A j \in open : j <= k
  IN IF all[latest].core = "open" THEN [all EXCEPT ![latest].toCore = @ \o Halves(number)] ELSE all

RespondedToListener(all, l, number) == all

\* mediaRequestHandler and PostResponse: every request of the core is answered, on
\* the stream it was read from.
Responded(all, l, number) ==
  IF all[l].core = "open" THEN [all EXCEPT ![l].toCore = @ \o Halves(number)] ELSE all

\* MediaServerInterface::on_read.
MediaRead(l, n) ==
  LET halves == Take(links[l].toMedia, n)
      taken == [links EXCEPT ![l].toMedia = Rest(@, n)]
  IN /\ media /\ links[l].media = "open"
     /\ n \in 1 .. Len(links[l].toMedia)
     /\ reads' = reads \cup {<<core.life, KindOf(halves)>>}
     /\ \/ /\ ~MustEnd(halves)
           /\ links' = IF Built(halves) THEN Responded(taken, l, halves[1].number) ELSE taken
           /\ UNCHANGED media
        \/ /\ MayEnd(halves)
           /\ media' = FALSE
           /\ links' = CloseMediaSides(taken)
     /\ UNCHANGED <<core, coreVars, asked, answered>>

\* on_read with an error.
MediaReadEnd(l) ==
  /\ media /\ links[l].media = "open" /\ links[l].core = "closed" /\ links[l].toMedia = <<>>
  /\ links' = [links EXCEPT ![l].media = "closed"]
  /\ UNCHANGED <<core, media, coreVars, asked, answered, reads>>

\* The operator stops the media process, or it fails for a reason of its own.
MediaEnds ==
  /\ media
  /\ media' = FALSE
  /\ links' = CloseMediaSides(links)
  /\ UNCHANGED <<core, coreVars, asked, answered, reads>>

MediaStarts ==
  /\ ~media
  /\ media' = TRUE
  /\ UNCHANGED <<core, coreVars, links, asked, answered, reads>>

-----------------------------------------------------------------------------
ReadBy(l) == \E n \in 1 .. Len(links[l].toCore) : CoreRead(l, n)
ReadByMedia(l) == \E n \in 1 .. Len(links[l].toMedia) : MediaRead(l, n)

LinkNext(l) ==
  \/ ReadBy(l)
  \/ CoreReadEnd(l)
  \/ MediaOnConnect(l)
  \/ ReadByMedia(l)
  \/ MediaReadEnd(l)

Next ==
  /\ UNCHANGED logEnds
  /\ \/ TryConnect
     \/ OnConnectFailed
     \/ OnConnect
     \/ PostRequest
     \/ CoreStarts
     \/ \E l \in DOMAIN links : LinkNext(l)
     \/ MediaEnds
     \/ MediaStarts

Spec == Init /\ [][Next]_vars

-----------------------------------------------------------------------------
(* Properties *)

\* A core handles responses to requests of its own only, from the link it wrote
\* them to, each once and in their order, also while the media process still
\* reads what an earlier life of the core has left.
AnswersAreOwn ==
  /\ \A i \in DOMAIN answered : asked[answered[i].number].link = answered[i].link
  /\ \A i, j \in DOMAIN answered : i < j => answered[i].number < answered[j].number

\* A life that has asked nothing, or had a read that starts within a message.
EarlyOrSplit ==
  \/ \A i \in DOMAIN asked : asked[i].life # core.life
  \/ <<core.life, "within">> \in reads

\* Where a call through a null logger ends the process, no life of the core
\* outlasts its connection and no request is ever written (on_connect's REGISTER).
\* Elsewhere a request ends the core only before its first connection, or a read
\* does by starting within a message: never the loss of the link.
CoreEndsAsBuilt ==
  IF logEnds THEN asked = <<>> /\ (core.running => clientConnection = NoLink)
  ELSE ~core.running => EarlyOrSplit

\* A core connects once: whatever it posts after it has lost the link goes where
\* it went before, to nobody.
OneLinkPerLife ==
  \A i, j \in DOMAIN asked : asked[i].life = asked[j].life => asked[i].link = asked[j].link

\* Once both processes stay up, and sockets did not run out before (every failed
\* attempt leaves one open), the link comes up; what went wrong earlier is no
\* obstacle.
LinkComesUp ==
  <>[](core.running /\ media /\ descriptors < MaxDescriptors) => <>[](clientConnection # NoLink)

\* It has been answered, or a read did not take one message, or the link is lost.
Settled(number) ==
  /\ number \in DOMAIN asked
  /\ \/ \E i \in DOMAIN answered : answered[i].number = number
     \/ \E read \in reads : read[2] # "whole"
     \/ links[asked[number].link].core = "closed"
     \/ links[asked[number].link].media = "closed"

\* As long as each read takes one message, and the link stays, every request is
\* answered.
OrderlyRequestsAnswered ==
  \A number \in Numbers : number \in DOMAIN asked ~> Settled(number)
=============================================================================
