-------------------------- MODULE MediaLinkProofs --------------------------
(* Theorems about MediaLink, for any number of lives of both processes, of   *)
(* links, of requests and of descriptors, and for reads of any length.       *)
EXTENDS MediaLink, Integers, SequenceTheorems, TLAPS

-----------------------------------------------------------------------------
(* The invariant *)

Half == [number : Nat \ {0}, half : {1, 2}]

Link ==
  [core : {"open", "closed"}, media : {"waiting", "open", "closed"}, life : Nat,
   toMedia : Seq(Half), toCore : Seq(Half)]

TypeInv ==
  /\ core \in [life : Nat, running : BOOLEAN]
  /\ media \in BOOLEAN
  /\ connectTimer \in BOOLEAN
  /\ attempt \in {"none", "refused", "established"}
  /\ descriptors \in Nat
  /\ clientConnection \in Nat \cup {NoLink}
  /\ links \in Seq(Link)
  /\ asked \in Seq([link : Nat, life : Nat])
  /\ answered \in Seq([number : Nat \ {0}, link : Nat])

\* Each request is on a link that was there for it, in the life that has asked.
AskedOnLinks ==
  \A i \in DOMAIN asked : asked[i].link \in DOMAIN links /\ asked[i].life <= core.life

\* A life has one connection, and until it has it the timer runs; what is about to
\* become one has not been written to.
ConnectsOnce ==
  /\ \A i \in DOMAIN asked : asked[i].life = core.life => asked[i].link = clientConnection
  /\ attempt # "none" => clientConnection = NoLink
  /\ clientConnection = NoLink => connectTimer
  /\ connectTimer => clientConnection = NoLink
  /\ clientConnection # NoLink => clientConnection \in DOMAIN links
  /\ attempt = "established" =>
       links # <<>> /\ \A i \in DOMAIN asked : asked[i].link # Len(links)

\* The place of a half in the order of all that was ever asked.
Place(h) == 2 * h.number + h.half

Before(s, t) == \A i \in 1 .. Len(s), j \in 1 .. Len(t) : Place(s[i]) < Place(t[j])
Increasing(s) == \A i, j \in 1 .. Len(s) : i < j => Place(s[i]) < Place(s[j])

\* What is on its way was asked on the link, and comes in that order; responses
\* are to requests before those that are on their way.
Belongs(s, l, requests) ==
  \A i \in 1 .. Len(s) : s[i].number \in DOMAIN requests /\ requests[s[i].number].link = l

Fits(toCore, toMedia, l, requests) ==
  /\ Belongs(toCore, l, requests) /\ Belongs(toMedia, l, requests)
  /\ Increasing(toCore) /\ Increasing(toMedia)
  /\ Before(toCore, toMedia)

AllFit(all, requests) ==
  \A l \in 1 .. Len(all) : Fits(all[l].toCore, all[l].toMedia, l, requests)

LinksFit == AllFit(links, asked)

\* What the core has handled comes before all that it can still read.
Later(answers, s) ==
  \A i \in 1 .. Len(answers), j \in 1 .. Len(s) : answers[i].number < s[j].number

Ahead(link, answers) == Later(answers, link.toCore) /\ Later(answers, link.toMedia)

AnsweredFirst ==
  /\ \A i \in DOMAIN answered : answered[i].number \in DOMAIN asked
  /\ clientConnection # NoLink => Ahead(links[clientConnection], answered)

EndsEarlyOrSplit == ~core.running => EarlyOrSplit

LinkInv ==
  /\ TypeInv
  /\ AskedOnLinks
  /\ ConnectsOnce
  /\ LinksFit
  /\ AnsweredFirst
  /\ EndsEarlyOrSplit
  /\ AnswersAreOwn
  /\ OneLinkPerLife

\* Where a message cannot be made, nothing is asked, and no life that runs is connected.
Unheard == logEnds => asked = <<>> /\ (core.running => clientConnection = NoLink)

-----------------------------------------------------------------------------
(* Sequences of halves *)

LEMMA RestElements ==
  ASSUME NEW S, NEW s \in Seq(S), NEW n \in 0 .. Len(s)
  PROVE  /\ Rest(s, n) \in Seq(S)
         /\ Len(Rest(s, n)) = Len(s) - n
         /\ \A i \in 1 .. Len(s) - n : Rest(s, n)[i] = s[n + i]
BY DEF Rest

LEMMA TakeElements ==
  ASSUME NEW S, NEW s \in Seq(S), NEW n \in 0 .. Len(s)
  PROVE  /\ Take(s, n) \in Seq(S)
         /\ Len(Take(s, n)) = n
         /\ \A i \in 1 .. n : Take(s, n)[i] = s[i]
BY DEF Take

LEMMA HalvesElements ==
  ASSUME NEW k \in Nat \ {0}
  PROVE  /\ Halves(k) \in Seq(Half)
         /\ Len(Halves(k)) = 2
         /\ Halves(k)[1] = [number |-> k, half |-> 1]
         /\ Halves(k)[2] = [number |-> k, half |-> 2]
BY DEF Halves, Half

LEMMA PlaceType ==
  ASSUME NEW h \in Half
  PROVE  /\ Place(h) \in Nat
         /\ h.number \in Nat /\ 2 * h.number + 1 <= Place(h) /\ Place(h) <= 2 * h.number + 2
BY DEF Half, Place

\* A half two places or more behind the first half of a message is of a later one.
LEMMA PlacesApart ==
  ASSUME NEW f \in Half, NEW g \in Half, NEW h \in Half, f.half = 1,
         Place(f) < Place(g), Place(g) < Place(h)
  PROVE  f.number < h.number
<1>1. f.number \in Nat /\ h.number \in Nat
  BY DEF Half
<1>2. Place(f) = 2 * f.number + 1
  BY DEF Place
<1>3. Place(g) \in Nat /\ Place(h) \in Nat /\ Place(h) <= 2 * h.number + 2
  BY PlaceType
<1>4. Place(f) \in Nat /\ Place(f) + 2 <= Place(h)
  BY <1>1, <1>2, <1>3
<1> QED
  BY <1>1, <1>2, <1>3, <1>4

\* Two messages' halves behind a sequence.
LEMMA AppendHalves ==
  ASSUME NEW s \in Seq(Half), NEW k \in Nat \ {0}
  PROVE  /\ s \o Halves(k) \in Seq(Half)
         /\ Len(s \o Halves(k)) = Len(s) + 2
         /\ \A i \in 1 .. Len(s) : (s \o Halves(k))[i] = s[i]
         /\ (s \o Halves(k))[Len(s) + 1] = [number |-> k, half |-> 1]
         /\ (s \o Halves(k))[Len(s) + 2] = [number |-> k, half |-> 2]
<1> DEFINE t == Halves(k)
<1>1. t \in Seq(Half) /\ Len(t) = 2
  BY HalvesElements
<1>2. t[1] = [number |-> k, half |-> 1] /\ t[2] = [number |-> k, half |-> 2]
  BY HalvesElements
<1> HIDE DEF t
<1>3. /\ s \o t \in Seq(Half) /\ Len(s \o t) = Len(s) + Len(t)
      /\ \A i \in 1 .. Len(s) + Len(t) : (s \o t)[i] = IF i <= Len(s) THEN s[i] ELSE t[i - Len(s)]
  BY <1>1, ConcatProperties
<1> DEFINE u == s \o t
<1>4. Len(s) \in Nat
  BY LenProperties
<1> HIDE DEF u
<1>5. /\ \A i \in 1 .. Len(s) : u[i] = s[i]
      /\ u[Len(s) + 1] = t[1] /\ u[Len(s) + 2] = t[2]
  BY <1>1, <1>3, <1>4 DEF u
<1> QED
  BY <1>1, <1>2, <1>3, <1>5 DEF t, u

LEMMA IncreasingRest ==
  ASSUME NEW s \in Seq(Half), NEW n \in 0 .. Len(s), Increasing(s)
  PROVE  Increasing(Rest(s, n))
<1> DEFINE r == Rest(s, n)
<1>1. Len(r) = Len(s) - n /\ \A i \in 1 .. Len(s) - n : r[i] = s[n + i]
  BY RestElements
<1> HIDE DEF r
<1> SUFFICES ASSUME NEW i \in 1 .. Len(s) - n, NEW j \in 1 .. Len(s) - n, i < j
             PROVE  Place(r[i]) < Place(r[j])
  BY <1>1 DEF Increasing, r
<1>2. n + i \in 1 .. Len(s) /\ n + j \in 1 .. Len(s) /\ n + i < n + j
  OBVIOUS
<1> QED
  BY <1>1, <1>2 DEF Increasing

LEMMA BelongsRest ==
  ASSUME NEW s \in Seq(Half), NEW n \in 0 .. Len(s), NEW l, NEW requests, Belongs(s, l, requests)
  PROVE  Belongs(Rest(s, n), l, requests)
<1> DEFINE r == Rest(s, n)
<1>1. Len(r) = Len(s) - n /\ \A i \in 1 .. Len(s) - n : r[i] = s[n + i]
  BY RestElements
<1> HIDE DEF r
<1> SUFFICES ASSUME NEW i \in 1 .. Len(s) - n
             PROVE  r[i].number \in DOMAIN requests /\ requests[r[i].number].link = l
  BY <1>1 DEF Belongs, r
<1>2. n + i \in 1 .. Len(s)
  OBVIOUS
<1> QED
  BY <1>1, <1>2 DEF Belongs

LEMMA BelongsAppend ==
  ASSUME NEW s \in Seq(Half), NEW k \in Nat \ {0}, NEW l, NEW requests, Belongs(s, l, requests),
         k \in DOMAIN requests, requests[k].link = l
  PROVE  Belongs(s \o Halves(k), l, requests)
<1> DEFINE t == s \o Halves(k)
<1>1. Len(t) = Len(s) + 2 /\ \A i \in 1 .. Len(s) : t[i] = s[i]
  BY AppendHalves
<1>4. t[Len(s) + 1] = [number |-> k, half |-> 1] /\ t[Len(s) + 2] = [number |-> k, half |-> 2]
  BY AppendHalves
<1>2. t[Len(s) + 1].number = k /\ t[Len(s) + 2].number = k
  BY <1>4
<1> HIDE DEF t
<1> SUFFICES ASSUME NEW i \in 1 .. Len(s) + 2
             PROVE  t[i].number \in DOMAIN requests /\ requests[t[i].number].link = l
  BY <1>1 DEF Belongs, t
<1>3. i \in 1 .. Len(s) \/ i = Len(s) + 1 \/ i = Len(s) + 2
  OBVIOUS
<1> QED
  BY <1>1, <1>2, <1>3 DEF Belongs

LEMMA IncreasingAppend ==
  ASSUME NEW s \in Seq(Half), NEW k \in Nat \ {0}, Increasing(s),
         \A i \in 1 .. Len(s) : Place(s[i]) < 2 * k + 1
  PROVE  Increasing(s \o Halves(k))
<1> DEFINE t == s \o Halves(k)
<1>1. t \in Seq(Half) /\ Len(t) = Len(s) + 2
  BY AppendHalves
<1>2. \A i \in 1 .. Len(s) : t[i] = s[i]
  BY AppendHalves
<1>3. t[Len(s) + 1] = [number |-> k, half |-> 1] /\ t[Len(s) + 2] = [number |-> k, half |-> 2]
  BY AppendHalves
<1> HIDE DEF t
<1>7. Place(t[Len(s) + 1]) = 2 * k + 1 /\ Place(t[Len(s) + 2]) = 2 * k + 2
  BY <1>3 DEF Place
<1> SUFFICES ASSUME NEW i \in 1 .. Len(s) + 2, NEW j \in 1 .. Len(s) + 2, i < j
             PROVE  Place(t[i]) < Place(t[j])
  BY <1>1 DEF Increasing, t
<1>4. CASE j \in 1 .. Len(s)
  BY <1>2, <1>4 DEF Increasing
<1>5. CASE j \notin 1 .. Len(s) /\ i \in 1 .. Len(s)
  <2>1. Place(t[i]) < 2 * k + 1
    BY <1>2, <1>5
  <2>2. t[i] \in Half
    BY <1>1
  <2>3. j = Len(s) + 1 \/ j = Len(s) + 2
    BY <1>5
  <2> QED
    BY <1>7, <2>1, <2>2, <2>3, PlaceType
<1>6. CASE i \notin 1 .. Len(s)
  BY <1>7, <1>6
<1> QED
  BY <1>4, <1>5, <1>6

-----------------------------------------------------------------------------
(* What is on a link *)

LEMMA LinkFields ==
  ASSUME NEW link \in Link
  PROVE  /\ link.toCore \in Seq(Half) /\ link.toMedia \in Seq(Half)
         /\ link.core \in {"open", "closed"} /\ link.media \in {"waiting", "open", "closed"}
         /\ link.life \in Nat
BY DEF Link

\* The core reads some of its stream.
LEMMA FitsCoreTakes ==
  ASSUME NEW c \in Seq(Half), NEW m \in Seq(Half), NEW n \in 0 .. Len(c), NEW l, NEW requests,
         Fits(c, m, l, requests)
  PROVE  Fits(Rest(c, n), m, l, requests)
<1>1. /\ Rest(c, n) \in Seq(Half) /\ Len(Rest(c, n)) = Len(c) - n
      /\ \A i \in 1 .. Len(c) - n : Rest(c, n)[i] = c[n + i]
  BY RestElements
<1>2. Increasing(Rest(c, n))
  BY IncreasingRest DEF Fits
<1> DEFINE r == Rest(c, n)
<1> HIDE DEF r
<1>3. Before(r, m)
  <2> SUFFICES ASSUME NEW i \in 1 .. Len(c) - n, NEW j \in 1 .. Len(m)
               PROVE  Place(r[i]) < Place(m[j])
    BY <1>1 DEF Before, r
  <2>1. n + i \in 1 .. Len(c) /\ r[i] = c[n + i]
    BY <1>1 DEF r
  <2> QED
    BY <2>1 DEF Fits, Before
<1>4. Belongs(r, l, requests)
  BY <1>1, BelongsRest DEF Fits, r
<1> QED
  BY <1>2, <1>3, <1>4 DEF Fits, r

\* The media process reads some of its stream, and does not respond.
LEMMA FitsMediaTakes ==
  ASSUME NEW c \in Seq(Half), NEW m \in Seq(Half), NEW n \in 0 .. Len(m), NEW l, NEW requests,
         Fits(c, m, l, requests)
  PROVE  Fits(c, Rest(m, n), l, requests)
<1>1. /\ Rest(m, n) \in Seq(Half) /\ Len(Rest(m, n)) = Len(m) - n
      /\ \A i \in 1 .. Len(m) - n : Rest(m, n)[i] = m[n + i]
  BY RestElements
<1>2. Increasing(Rest(m, n))
  BY IncreasingRest DEF Fits
<1> DEFINE r == Rest(m, n)
<1> HIDE DEF r
<1>3. Before(c, r)
  <2> SUFFICES ASSUME NEW i \in 1 .. Len(c), NEW j \in 1 .. Len(m) - n
               PROVE  Place(c[i]) < Place(r[j])
    BY <1>1 DEF Before, r
  <2>1. n + j \in 1 .. Len(m) /\ r[j] = m[n + j]
    BY <1>1 DEF r
  <2> QED
    BY <2>1 DEF Fits, Before
<1>4. Belongs(r, l, requests)
  BY <1>1, BelongsRest DEF Fits, r
<1> QED
  BY <1>2, <1>3, <1>4 DEF Fits, r

\* It reads some that start with a whole message, and responds to that.
LEMMA FitsMediaResponds ==
  ASSUME NEW c \in Seq(Half), NEW m \in Seq(Half), NEW n \in 2 .. Len(m), NEW l, NEW requests,
         Fits(c, m, l, requests), m[1].half = 1
  PROVE  Fits(c \o Halves(m[1].number), Rest(m, n), l, requests)
<1> DEFINE k == m[1].number
           d == c \o Halves(k)
           r == Rest(m, n)
<1>11. m[1] \in Half /\ m[2] \in Half
  OBVIOUS
<1>1. m[1] \in Half /\ m[2] \in Half /\ k \in Nat \ {0} /\ Place(m[1]) = 2 * k + 1
  BY <1>11 DEF Half, Place
<1>2. /\ d \in Seq(Half) /\ Len(d) = Len(c) + 2 /\ \A i \in 1 .. Len(c) : d[i] = c[i]
      /\ d[Len(c) + 1] = [number |-> k, half |-> 1] /\ d[Len(c) + 2] = [number |-> k, half |-> 2]
  BY <1>1, AppendHalves
<1>3. /\ r \in Seq(Half) /\ Len(r) = Len(m) - n /\ \A i \in 1 .. Len(m) - n : r[i] = m[n + i]
  <2> HIDE DEF k, d
  <2>1. n \in 0 .. Len(m)
    OBVIOUS
  <2> QED
    BY <2>1, RestElements
<1>5. Increasing(d)
  <2>1. \A i \in 1 .. Len(c) : Place(c[i]) < 2 * k + 1
    BY <1>1 DEF Fits, Before
  <2>2. Increasing(c)
    BY DEF Fits
  <2> HIDE DEF k
  <2> QED
    BY <1>1, <2>1, <2>2, IncreasingAppend
<1>6. Increasing(r)
  <2> HIDE DEF k, d
  <2>1. n \in 0 .. Len(m) /\ Increasing(m)
    BY DEF Fits
  <2> QED
    BY <2>1, IncreasingRest
<1>12. m[1].number = k
  OBVIOUS
<1> HIDE DEF k, d, r
<1>7. \A j \in 1 .. Len(r) : Place(r[j]) > 2 * k + 2
  <2> SUFFICES ASSUME NEW j \in 1 .. Len(m) - n PROVE Place(m[n + j]) > 2 * k + 2
    BY <1>3
  <2>3. 1 \in 1 .. Len(m) /\ 2 \in 1 .. Len(m) /\ n + j \in 1 .. Len(m) /\ 2 < n + j
    OBVIOUS
  <2>1. Place(m[1]) < Place(m[2]) /\ Place(m[2]) < Place(m[n + j])
    BY <2>3 DEF Fits, Increasing
  <2>2. m[n + j] \in Half
    OBVIOUS
  <2> QED
    BY <1>1, <2>1, <2>2, PlaceType
<1>8. Before(d, r)
  <2> SUFFICES ASSUME NEW i \in 1 .. Len(c) + 2, NEW j \in 1 .. Len(m) - n
               PROVE  Place(d[i]) < Place(r[j])
    BY <1>2, <1>3 DEF Before
  <2>1. CASE i \in 1 .. Len(c)
    BY <1>2, <1>3, <2>1, SMTT(30) DEF Fits, Before
  <2>2. CASE i \notin 1 .. Len(c)
    <3>0. i = Len(c) + 1 \/ i = Len(c) + 2
      BY <2>2
    <3>3. d[i].number = k /\ d[i].half \in {1, 2}
      BY <1>2, <3>0
    <3>1. Place(d[i]) <= 2 * k + 2 /\ Place(d[i]) \in Nat
      BY <1>1, <3>3 DEF Place
    <3>2. r[j] \in Half /\ Place(r[j]) > 2 * k + 2
      BY <1>3, <1>7, SMTT(30)
    <3> QED
      BY <1>1, <3>1, <3>2, PlaceType
  <2> QED
    BY <2>1, <2>2
<1>9. Belongs(d, l, requests)
  <2>1. k \in DOMAIN requests /\ requests[k].link = l
    BY <1>12 DEF Fits, Belongs
  <2> QED
    BY <1>1, <2>1, BelongsAppend DEF Fits, d
<1>10. Belongs(r, l, requests)
  BY BelongsRest DEF Fits, r
<1> QED
  BY <1>5, <1>6, <1>8, <1>9, <1>10 DEF Fits, d, k, r

\* One more request, on whatever link, and one on this.
LEMMA FitsMoreRequests ==
  ASSUME NEW R, NEW requests \in Seq(R), NEW r \in R, NEW c, NEW m, NEW l,
         Fits(c, m, l, requests)
  PROVE  Fits(c, m, l, Append(requests, r))
<1>1. \A i \in DOMAIN requests :
        i \in DOMAIN Append(requests, r) /\ Append(requests, r)[i] = requests[i]
  OBVIOUS
<1> QED
  BY <1>1 DEF Fits, Belongs

LEMMA FitsWritten ==
  ASSUME NEW R, NEW requests \in Seq(R), NEW r \in R, NEW c \in Seq(Half), NEW m \in Seq(Half),
         NEW l, Fits(c, m, l, requests), r.link = l
  PROVE  Fits(c, m \o Halves(Len(requests) + 1), l, Append(requests, r))
<1> DEFINE k == Len(requests) + 1
           after == Append(requests, r)
           d == m \o Halves(k)
<1>1. k \in Nat \ {0}
  OBVIOUS
<1>2. /\ d \in Seq(Half) /\ Len(d) = Len(m) + 2 /\ \A i \in 1 .. Len(m) : d[i] = m[i]
      /\ d[Len(m) + 1] = [number |-> k, half |-> 1] /\ d[Len(m) + 2] = [number |-> k, half |-> 2]
  BY <1>1, AppendHalves
<1>3. Fits(c, m, l, after)
  BY FitsMoreRequests
<1>4. k \in DOMAIN after /\ after[k].link = l
  OBVIOUS
<1>5. \A s \in Seq(Half) : Belongs(s, l, requests) => \A i \in 1 .. Len(s) : Place(s[i]) < 2 * k + 1
  <2> SUFFICES ASSUME NEW s \in Seq(Half), Belongs(s, l, requests), NEW i \in 1 .. Len(s)
               PROVE  Place(s[i]) < 2 * k + 1
    OBVIOUS
  <2>1. s[i] \in Half /\ s[i].number <= Len(requests)
    BY DEF Belongs
  <2> QED
    BY <2>1, PlaceType
<1>6. Increasing(d)
  <2>1. Increasing(m) /\ \A i \in 1 .. Len(m) : Place(m[i]) < 2 * k + 1
    BY <1>5 DEF Fits
  <2> HIDE DEF k
  <2> QED
    BY <1>1, <2>1, IncreasingAppend
<1> HIDE DEF k, d, after
<1>7. Before(c, d)
  <2> SUFFICES ASSUME NEW i \in 1 .. Len(c), NEW j \in 1 .. Len(m) + 2
               PROVE  Place(c[i]) < Place(d[j])
    BY <1>2 DEF Before
  <2>1. CASE j \in 1 .. Len(m)
    BY <1>2, <2>1 DEF Fits, Before
  <2>2. CASE j \notin 1 .. Len(m)
    <3>1. Place(d[j]) >= 2 * k + 1 /\ Place(d[j]) \in Nat
      BY <1>1, <1>2, <2>2 DEF Place
    <3>2. c[i] \in Half /\ Place(c[i]) < 2 * k + 1
      BY <1>5 DEF Fits
    <3> QED
      BY <1>1, <3>1, <3>2, PlaceType
  <2> QED
    BY <2>1, <2>2
<1>8. Belongs(d, l, after)
  BY <1>1, <1>3, <1>4, BelongsAppend DEF Fits, d
<1> QED
  BY <1>3, <1>6, <1>7, <1>8 DEF Fits, k, d, after

-----------------------------------------------------------------------------
(* All links *)

LEMMA LinkReplaced ==
  ASSUME NEW all \in Seq(Link), NEW l \in 1 .. Len(all), NEW link \in Link
  PROVE  /\ [all EXCEPT ![l] = link] \in Seq(Link)
         /\ Len([all EXCEPT ![l] = link]) = Len(all)
         /\ \A k \in 1 .. Len(all) : [all EXCEPT ![l] = link][k] = IF k = l THEN link ELSE all[k]
BY ExceptSeq

LEMMA MappedLinks ==
  ASSUME NEW all \in Seq(Link), NEW f \in [1 .. Len(all) -> Link]
  PROVE  f \in Seq(Link) /\ Len(f) = Len(all)
<1>1. Len(all) \in Nat
  BY LenProperties
<1>2. f \in Seq(Link)
  BY <1>1, SeqDef
<1> QED
  BY <1>1, <1>2, LenProperties

\* The sides are closed, and at most requests are lost.
Narrowed(new, old) ==
  /\ new \in Seq(Link)
  /\ Len(new) = Len(old)
  /\ \A l \in 1 .. Len(old) :
       new[l].toCore = old[l].toCore /\ new[l].toMedia \in {old[l].toMedia, <<>>}

LEMMA CoreSidesNarrowed ==
  ASSUME NEW all \in Seq(Link)
  PROVE  Narrowed(CloseCoreSides(all), all)
<1>1. DOMAIN all = 1 .. Len(all) /\ \A l \in 1 .. Len(all) : all[l] \in Link
  BY LenProperties
<1>2. \A l \in 1 .. Len(all) : [all[l] EXCEPT !.core = "closed"] \in Link
  BY <1>1 DEF Link
<1> DEFINE f == [l \in 1 .. Len(all) |-> [all[l] EXCEPT !.core = "closed"]]
<1>3. CloseCoreSides(all) = f
  BY <1>1 DEF CloseCoreSides
<1>4. f \in [1 .. Len(all) -> Link]
  BY <1>2
<1>5. f \in Seq(Link) /\ Len(f) = Len(all)
  <2> HIDE DEF f
  <2> QED
    BY <1>4, MappedLinks
<1>6. \A l \in 1 .. Len(all) : f[l].toCore = all[l].toCore /\ f[l].toMedia = all[l].toMedia
  BY <1>1 DEF Link
<1> QED
  BY <1>3, <1>5, <1>6 DEF Narrowed

LEMMA MediaSidesNarrowed ==
  ASSUME NEW all \in Seq(Link)
  PROVE  Narrowed(CloseMediaSides(all), all)
<1>1. DOMAIN all = 1 .. Len(all) /\ \A l \in 1 .. Len(all) : all[l] \in Link
  BY LenProperties
<1>2. \A l \in 1 .. Len(all) : [all[l] EXCEPT !.media = "closed", !.toMedia = <<>>] \in Link
  <2>1. <<>> \in Seq(Half)
    OBVIOUS
  <2> QED
    BY <1>1, <2>1 DEF Link
<1> DEFINE f == [l \in 1 .. Len(all) |-> [all[l] EXCEPT !.media = "closed", !.toMedia = <<>>]]
<1>3. CloseMediaSides(all) = f
  BY <1>1 DEF CloseMediaSides
<1>4. f \in [1 .. Len(all) -> Link]
  BY <1>2
<1>5. f \in Seq(Link) /\ Len(f) = Len(all)
  <2> HIDE DEF f
  <2> QED
    BY <1>4, MappedLinks
<1>6. \A l \in 1 .. Len(all) : f[l].toCore = all[l].toCore /\ f[l].toMedia = <<>>
  BY <1>1 DEF Link
<1> QED
  BY <1>3, <1>5, <1>6 DEF Narrowed

LEMMA NarrowedFits ==
  ASSUME NEW old \in Seq(Link), NEW new, NEW requests, Narrowed(new, old), AllFit(old, requests)
  PROVE  AllFit(new, requests)
<1> SUFFICES ASSUME NEW l \in 1 .. Len(old)
             PROVE  Fits(new[l].toCore, new[l].toMedia, l, requests)
  BY DEF AllFit, Narrowed
<1>1. Fits(old[l].toCore, old[l].toMedia, l, requests)
  BY DEF AllFit
<1>2. Len(<<>>) = 0
  BY EmptySeq
<1>3. Fits(old[l].toCore, <<>>, l, requests)
  BY <1>1, <1>2 DEF Fits, Belongs, Increasing, Before
<1> QED
  BY <1>1, <1>3 DEF Narrowed

LEMMA NarrowedAhead ==
  ASSUME NEW old \in Seq(Link), NEW new, NEW answers, NEW l \in 1 .. Len(old),
         Narrowed(new, old), Ahead(old[l], answers)
  PROVE  Ahead(new[l], answers)
<1>1. Len(<<>>) = 0
  BY EmptySeq
<1>2. Later(answers, <<>>)
  BY <1>1 DEF Later
<1> QED
  BY <1>2 DEF Narrowed, Ahead

-----------------------------------------------------------------------------
(* Steps that do not ask *)

LEMMA TypeFacts ==
  ASSUME TypeInv
  PROVE  /\ links \in Seq(Link) /\ DOMAIN links = 1 .. Len(links) /\ Len(links) \in Nat
         /\ \A l \in 1 .. Len(links) : links[l] \in Link
         /\ asked \in Seq([link : Nat, life : Nat])
         /\ DOMAIN asked = 1 .. Len(asked) /\ Len(asked) \in Nat
         /\ answered \in Seq([number : Nat \ {0}, link : Nat])
         /\ DOMAIN answered = 1 .. Len(answered) /\ Len(answered) \in Nat
BY LenProperties, ElementOfSeq DEF TypeInv

\* A step by which a core that has ended keeps its reason.
LEMMA ReasonKept ==
  ASSUME EndsEarlyOrSplit, UNCHANGED <<core, asked>>, reads \subseteq reads'
  PROVE  EndsEarlyOrSplit'
BY DEF EndsEarlyOrSplit, EarlyOrSplit

\* The links are all that changes, and what is on them still fits.
LEMMA LinksChange ==
  ASSUME LinkInv, UNCHANGED <<coreVars, asked, answered>>,
         core' \in [life : Nat, running : BOOLEAN], core'.life = core.life, media' \in BOOLEAN,
         links' \in Seq(Link), Len(links') = Len(links), AllFit(links', asked),
         clientConnection # NoLink => Ahead(links'[clientConnection], answered),
         EndsEarlyOrSplit'
  PROVE  LinkInv'
<1> USE DEF LinkInv
<1>1. /\ UNCHANGED <<connectTimer, attempt, descriptors, clientConnection, asked, answered>>
  BY DEF coreVars
<1>2. DOMAIN links' = DOMAIN links
  BY LenProperties DEF TypeInv
<1>3. TypeInv'
  BY <1>1 DEF TypeInv
<1>4. AskedOnLinks'
  BY <1>1, <1>2 DEF AskedOnLinks
<1>5. ConnectsOnce'
  <2>1. links # <<>> => links' # <<>>
    BY <1>2, EmptySeq DEF TypeInv
  <2> QED
    BY <1>1, <1>2, <2>1 DEF ConnectsOnce
<1>6. LinksFit'
  BY <1>1 DEF LinksFit
<1>7. AnsweredFirst'
  BY <1>1 DEF AnsweredFirst
<1>8. AnswersAreOwn'
  BY <1>1 DEF AnswersAreOwn
<1>9. OneLinkPerLife'
  BY <1>1 DEF OneLinkPerLife
<1> QED
  BY <1>3, <1>4, <1>5, <1>6, <1>7, <1>8, <1>9

LEMMA LinksNarrow ==
  ASSUME LinkInv, UNCHANGED <<coreVars, asked, answered>>,
         core' \in [life : Nat, running : BOOLEAN], core'.life = core.life, media' \in BOOLEAN,
         Narrowed(links', links), EndsEarlyOrSplit'
  PROVE  LinkInv'
<1>1. links \in Seq(Link) /\ DOMAIN links = 1 .. Len(links)
  BY TypeFacts DEF LinkInv
<1>2. AllFit(links', asked)
  BY <1>1, NarrowedFits DEF LinkInv, LinksFit
<1>3. clientConnection # NoLink => Ahead(links'[clientConnection], answered)
  BY <1>1, NarrowedAhead DEF LinkInv, AnsweredFirst, ConnectsOnce
<1> QED
  BY <1>2, <1>3, LinksChange DEF Narrowed

\* One link is closed or opened.
LEMMA FlagsNarrow ==
  ASSUME NEW all \in Seq(Link), NEW l \in 1 .. Len(all), NEW link \in Link,
         link.toCore = all[l].toCore, link.toMedia = all[l].toMedia
  PROVE  Narrowed([all EXCEPT ![l] = link], all)
BY LinkReplaced DEF Narrowed

LEMMA CoreReadEndKeeps ==
  ASSUME LinkInv, NEW l \in DOMAIN links, CoreReadEnd(l)
  PROVE  LinkInv'
<1> DEFINE link == [links[l] EXCEPT !.core = "closed"]
<1>1. links \in Seq(Link) /\ l \in 1 .. Len(links) /\ links[l] \in Link
  BY TypeFacts DEF LinkInv
<1>2. link \in Link
  BY <1>1 DEF Link
<1>3. link.toCore = links[l].toCore /\ link.toMedia = links[l].toMedia
  BY <1>1 DEF Link
<1>4. links' = [links EXCEPT ![l] = link]
  BY DEF CoreReadEnd
<1> HIDE DEF link
<1>5. Narrowed(links', links)
  BY <1>1, <1>2, <1>3, <1>4, FlagsNarrow
<1>6. EndsEarlyOrSplit'
  BY ReasonKept DEF CoreReadEnd, LinkInv
<1> QED
  BY <1>5, <1>6, LinksNarrow DEF CoreReadEnd, LinkInv, TypeInv

LEMMA MediaOnConnectKeeps ==
  ASSUME LinkInv, NEW l \in DOMAIN links, MediaOnConnect(l)
  PROVE  LinkInv'
<1> DEFINE link == [links[l] EXCEPT !.media = "open"]
<1>1. links \in Seq(Link) /\ l \in 1 .. Len(links) /\ links[l] \in Link
  BY TypeFacts DEF LinkInv
<1>2. link \in Link
  BY <1>1 DEF Link
<1>3. link.toCore = links[l].toCore /\ link.toMedia = links[l].toMedia
  BY <1>1 DEF Link
<1>4. links' = [links EXCEPT ![l] = link]
  BY DEF MediaOnConnect
<1> HIDE DEF link
<1>5. Narrowed(links', links)
  BY <1>1, <1>2, <1>3, <1>4, FlagsNarrow
<1>6. EndsEarlyOrSplit'
  BY ReasonKept DEF MediaOnConnect, LinkInv
<1> QED
  BY <1>5, <1>6, LinksNarrow DEF MediaOnConnect, LinkInv, TypeInv

LEMMA MediaReadEndKeeps ==
  ASSUME LinkInv, NEW l \in DOMAIN links, MediaReadEnd(l)
  PROVE  LinkInv'
<1> DEFINE link == [links[l] EXCEPT !.media = "closed"]
<1>1. links \in Seq(Link) /\ l \in 1 .. Len(links) /\ links[l] \in Link
  BY TypeFacts DEF LinkInv
<1>2. link \in Link
  BY <1>1 DEF Link
<1>3. link.toCore = links[l].toCore /\ link.toMedia = links[l].toMedia
  BY <1>1 DEF Link
<1>4. links' = [links EXCEPT ![l] = link]
  BY DEF MediaReadEnd
<1> HIDE DEF link
<1>5. Narrowed(links', links)
  BY <1>1, <1>2, <1>3, <1>4, FlagsNarrow
<1>6. EndsEarlyOrSplit'
  BY ReasonKept DEF MediaReadEnd, LinkInv
<1> QED
  BY <1>5, <1>6, LinksNarrow DEF MediaReadEnd, LinkInv, TypeInv

LEMMA MediaEndsKeeps ==
  ASSUME LinkInv, MediaEnds
  PROVE  LinkInv'
<1>1. Narrowed(links', links)
  BY MediaSidesNarrowed DEF MediaEnds, LinkInv, TypeInv
<1>2. EndsEarlyOrSplit'
  BY ReasonKept DEF MediaEnds, LinkInv
<1> QED
  BY <1>1, <1>2, LinksNarrow DEF MediaEnds, LinkInv, TypeInv

LEMMA MediaStartsKeeps ==
  ASSUME LinkInv, MediaStarts
  PROVE  LinkInv'
<1>1. Narrowed(links', links)
  BY DEF MediaStarts, LinkInv, TypeInv, Narrowed
<1>2. EndsEarlyOrSplit'
  BY ReasonKept DEF MediaStarts, LinkInv
<1> QED
  BY <1>1, <1>2, LinksNarrow DEF MediaStarts, LinkInv, TypeInv

\* A new life has asked nothing.
LEMMA CoreStartsKeeps ==
  ASSUME LinkInv, CoreStarts
  PROVE  LinkInv'
<1> USE DEF LinkInv
<1>1. /\ core' = [life |-> core.life + 1, running |-> TRUE] /\ connectTimer' = TRUE
      /\ attempt' = "none" /\ descriptors' = 0 /\ clientConnection' = NoLink
      /\ UNCHANGED <<media, links, asked, answered, reads>>
  BY DEF CoreStarts
<1>2. core.life \in Nat /\ core'.life = core.life + 1
  BY <1>1 DEF TypeInv
<1>3. \A i \in DOMAIN asked : asked[i].life <= core.life /\ asked[i].life \in Nat
  <2>1. \A i \in DOMAIN asked : asked[i] \in [link : Nat, life : Nat]
    BY TypeFacts, ElementOfSeq
  <2> QED
    BY <2>1 DEF AskedOnLinks
<1>4. TypeInv'
  BY <1>1, <1>2 DEF TypeInv
<1>5. AskedOnLinks'
  BY <1>1, <1>2, <1>3 DEF AskedOnLinks
<1>6. ConnectsOnce'
  BY <1>1, <1>2, <1>3 DEF ConnectsOnce
<1>7. LinksFit' /\ AnsweredFirst' /\ AnswersAreOwn' /\ OneLinkPerLife' /\ EndsEarlyOrSplit'
  BY <1>1 DEF LinksFit, AnsweredFirst, AnswersAreOwn, OneLinkPerLife, EndsEarlyOrSplit, EarlyOrSplit
<1> QED
  BY <1>4, <1>5, <1>6, <1>7

\* What is read with a whole message comes after that message.
LEMMA AfterWhole ==
  ASSUME NEW s \in Seq(Half), NEW n \in 2 .. Len(s), Increasing(s), s[1].half = 1
  PROVE  /\ s[1] \in Half
         /\ \A j \in 1 .. Len(Rest(s, n)) : s[1].number < Rest(s, n)[j].number
<1>1. s[1] \in Half /\ s[2] \in Half
  OBVIOUS
<1>3. \A j \in 1 .. Len(s) - n : s[1].number < s[n + j].number
  <2> SUFFICES ASSUME NEW j \in 1 .. Len(s) - n
               PROVE  s[1].number < s[n + j].number
    OBVIOUS
  <2>1. s[n + j] \in Half
    OBVIOUS
  <2>3. 1 \in 1 .. Len(s) /\ 2 \in 1 .. Len(s) /\ n + j \in 1 .. Len(s) /\ 2 < n + j
    OBVIOUS
  <2>2. Place(s[1]) < Place(s[2]) /\ Place(s[2]) < Place(s[n + j])
    BY <2>3 DEF Increasing
  <2> QED
    BY <1>1, <2>1, <2>2, PlacesApart
<1> DEFINE r == Rest(s, n)
<1>4. Len(r) = Len(s) - n /\ \A i \in 1 .. Len(s) - n : r[i] = s[n + i]
  BY RestElements
<1> HIDE DEF r
<1> QED
  BY <1>1, <1>3, <1>4 DEF r

LEMMA BuiltStarts ==
  ASSUME NEW s \in Seq(Half), NEW n \in 1 .. Len(s), Built(Take(s, n))
  PROVE  /\ n \in 2 .. Len(s)
         /\ s[1] \in Half /\ s[1].half = 1
         /\ Take(s, n)[1] = s[1]
<1> DEFINE halves == Take(s, n)
<1>1. Len(halves) = n /\ halves[1] = s[1]
  BY TakeElements
<1>2. s[1] \in Half
  OBVIOUS
<1> HIDE DEF halves
<1>3. halves[1].half # 2 /\ Len(halves) # 1
  BY DEF Built, KindOf, halves
<1>4. s[1].half \in {1, 2}
  BY <1>2 DEF Half
<1> QED
  BY <1>1, <1>2, <1>3, <1>4 DEF halves

LEMMA LaterRest ==
  ASSUME NEW answers, NEW s \in Seq(Half), NEW n \in 0 .. Len(s), Later(answers, s)
  PROVE  Later(answers, Rest(s, n))
<1> DEFINE r == Rest(s, n)
<1>1. Len(r) = Len(s) - n /\ \A i \in 1 .. Len(s) - n : r[i] = s[n + i]
  BY RestElements
<1> HIDE DEF r
<1> SUFFICES ASSUME NEW i \in 1 .. Len(answers), NEW j \in 1 .. Len(s) - n
             PROVE  answers[i].number < r[j].number
  BY <1>1 DEF Later, r
<1>2. n + j \in 1 .. Len(s)
  OBVIOUS
<1> QED
  BY <1>1, <1>2 DEF Later

LEMMA LaterAppend ==
  ASSUME NEW answers, NEW s \in Seq(Half), NEW k \in Nat \ {0}, Later(answers, s),
         \A i \in 1 .. Len(answers) : answers[i].number < k
  PROVE  Later(answers, s \o Halves(k))
<1> DEFINE t == s \o Halves(k)
<1>1. Len(t) = Len(s) + 2 /\ \A i \in 1 .. Len(s) : t[i] = s[i]
  BY AppendHalves
<1>2. t[Len(s) + 1] = [number |-> k, half |-> 1] /\ t[Len(s) + 2] = [number |-> k, half |-> 2]
  BY AppendHalves
<1>3. t[Len(s) + 1].number = k /\ t[Len(s) + 2].number = k
  BY <1>2
<1> HIDE DEF t
<1> SUFFICES ASSUME NEW i \in 1 .. Len(answers), NEW j \in 1 .. Len(s) + 2
             PROVE  answers[i].number < t[j].number
  BY <1>1 DEF Later, t
<1>4. j \in 1 .. Len(s) \/ j = Len(s) + 1 \/ j = Len(s) + 2
  OBVIOUS
<1> QED
  BY <1>1, <1>3, <1>4 DEF Later

LEMMA OnConnectFailedKeeps ==
  ASSUME LinkInv, OnConnectFailed
  PROVE  LinkInv'
<1> USE DEF LinkInv
<1>1. /\ attempt' = "none"
      /\ UNCHANGED <<core, media, connectTimer, descriptors, clientConnection, links, asked,
                     answered, reads>>
  BY DEF OnConnectFailed
<1>2. TypeInv'
  BY <1>1 DEF TypeInv
<1>3. AskedOnLinks' /\ ConnectsOnce'
  BY <1>1 DEF AskedOnLinks, ConnectsOnce
<1>4. LinksFit' /\ AnsweredFirst' /\ AnswersAreOwn' /\ OneLinkPerLife' /\ EndsEarlyOrSplit'
  BY <1>1 DEF LinksFit, AnsweredFirst, AnswersAreOwn, OneLinkPerLife, EndsEarlyOrSplit, EarlyOrSplit
<1> QED
  BY <1>2, <1>3, <1>4

\* A new link carries nothing, and no request was on it.
LEMMA TryConnectKeeps ==
  ASSUME LinkInv, TryConnect
  PROVE  LinkInv'
<1> USE DEF LinkInv
<1>1. /\ connectTimer /\ attempt = "none" /\ descriptors' = descriptors + 1
      /\ UNCHANGED <<core, media, connectTimer, clientConnection, asked, answered, reads>>
  BY DEF TryConnect
<1>2. clientConnection = NoLink
  BY <1>1 DEF ConnectsOnce
<1>3. core.life \in Nat
  BY DEF TypeInv
<1>4. links \in Seq(Link) /\ DOMAIN links = 1 .. Len(links) /\ Len(links) \in Nat
  BY TypeFacts
<1>5. EndsEarlyOrSplit' /\ AnswersAreOwn' /\ OneLinkPerLife'
  BY <1>1 DEF EndsEarlyOrSplit, EarlyOrSplit, AnswersAreOwn, OneLinkPerLife
<1>6. AnsweredFirst'
  BY <1>1, <1>2 DEF AnsweredFirst
<1>7. CASE ~media
  <2>1. attempt' = "refused" /\ UNCHANGED links
    BY <1>7 DEF TryConnect
  <2>2. TypeInv'
    BY <1>1, <2>1 DEF TypeInv
  <2>3. AskedOnLinks' /\ ConnectsOnce' /\ LinksFit'
    BY <1>1, <1>2, <2>1 DEF AskedOnLinks, ConnectsOnce, LinksFit
  <2> QED
    BY <1>5, <1>6, <2>2, <2>3
<1>8. CASE media
  <2> DEFINE link == [core |-> "open", media |-> "waiting", life |-> core.life,
                      toMedia |-> <<>>, toCore |-> <<>>]
  <2>1. attempt' = "established" /\ links' = Append(links, link)
    BY <1>8 DEF TryConnect
  <2>2. link \in Link
    BY <1>3 DEF Link
  <2>3. link.toMedia = <<>> /\ link.toCore = <<>>
    OBVIOUS
  <2> HIDE DEF link
  <2>4. /\ links' \in Seq(Link) /\ Len(links') = Len(links) + 1
        /\ links'[Len(links) + 1] = link /\ \A l \in 1 .. Len(links) : links'[l] = links[l]
    BY <1>4, <2>1, <2>2, AppendProperties
  <2>5. DOMAIN links' = 1 .. Len(links) + 1
    BY <2>4, LenProperties
  <2>6. TypeInv'
    BY <1>1, <2>1, <2>4 DEF TypeInv
  <2>7. AskedOnLinks'
    BY <1>1, <1>4, <2>5 DEF AskedOnLinks
  <2>8. ConnectsOnce'
    <3>1. \A i \in DOMAIN asked : asked[i].link # Len(links')
      BY <1>4, <2>4 DEF AskedOnLinks
    <3>2. links' # <<>>
      BY <1>4, <2>4, EmptySeq
    <3> QED
      BY <1>1, <1>2, <3>1, <3>2 DEF ConnectsOnce
  <2>9. LinksFit'
    <3> SUFFICES ASSUME NEW l \in 1 .. Len(links) + 1
                 PROVE  Fits(links'[l].toCore, links'[l].toMedia, l, asked)
      BY <1>1, <2>4 DEF LinksFit, AllFit
    <3>1. CASE l \in 1 .. Len(links)
      BY <2>4, <3>1 DEF LinksFit, AllFit
    <3>2. CASE l = Len(links) + 1
      <4>1. Len(<<>>) = 0
        BY EmptySeq
      <4>2. Fits(<<>>, <<>>, l, asked)
        BY <4>1 DEF Fits, Belongs, Increasing, Before
      <4> QED
        BY <2>3, <2>4, <3>2, <4>2
    <3> QED
      BY <1>4, <3>1, <3>2
  <2> QED
    BY <1>5, <1>6, <2>6, <2>7, <2>8, <2>9
<1> QED
  BY <1>7, <1>8 DEF TypeInv

-----------------------------------------------------------------------------
(* Reads *)

LEMMA CoreReadKeeps ==
  ASSUME LinkInv, Unheard, NEW l \in DOMAIN links, NEW n \in 1 .. Len(links[l].toCore), CoreRead(l, n)
  PROVE  LinkInv'
<1> DEFINE c == links[l].toCore
           m == links[l].toMedia
           r == Rest(c, n)
           link == [links[l] EXCEPT !.toCore = r]
           taken == [links EXCEPT ![l].toCore = Rest(@, n)]
           halves == Take(c, n)
<1>1. /\ links \in Seq(Link) /\ DOMAIN links = 1 .. Len(links) /\ l \in 1 .. Len(links)
      /\ links[l] \in Link
  BY TypeFacts DEF LinkInv
<1>2. c \in Seq(Half) /\ m \in Seq(Half) /\ n \in 1 .. Len(c)
  BY <1>1, LinkFields
<1>3. Fits(c, m, l, asked)
  BY <1>1 DEF LinkInv, LinksFit, AllFit
<1>4. /\ core.running /\ clientConnection = l
      /\ reads' = reads \cup {<<core.life, KindOf(halves)>>}
      /\ UNCHANGED <<media, coreVars, asked>>
  BY DEF CoreRead
<1>5. Ahead(links[l], answered)
  <2>1. l # NoLink
    BY <1>1, NoLinkAssumption
  <2> QED
    BY <1>4, <2>1 DEF LinkInv, AnsweredFirst
<1>6. \/ links' = taken /\ UNCHANGED core /\ Built(halves)
         /\ answered' = Append(answered, [number |-> halves[1].number, link |-> l])
      \/ links' = taken /\ UNCHANGED <<core, answered>>
      \/ MayEnd(halves) /\ CoreEnded /\ links' = CloseCoreSides(taken) /\ UNCHANGED answered
  BY DEF CoreRead
<1> HIDE DEF halves
<1>7. r \in Seq(Half)
  BY <1>2, RestElements
<1>8. taken = [links EXCEPT ![l] = link]
  OBVIOUS
<1> HIDE DEF taken, r
<1>9. link \in Link /\ link.toCore = r /\ link.toMedia = m
  BY <1>1, <1>7 DEF Link
<1> HIDE DEF link, c, m
<1>10. /\ taken \in Seq(Link) /\ Len(taken) = Len(links)
       /\ \A k \in 1 .. Len(links) : taken[k] = IF k = l THEN link ELSE links[k]
  BY <1>1, <1>8, <1>9, LinkReplaced
<1>11. AllFit(taken, asked)
  <2>1. Fits(r, m, l, asked)
    BY <1>2, <1>3, FitsCoreTakes DEF r
  <2> QED
    BY <1>1, <1>9, <1>10, <2>1 DEF LinkInv, LinksFit, AllFit
<1>12. Ahead(taken[l], answered)
  <2>1. Later(answered, c) /\ Later(answered, m)
    BY <1>5 DEF Ahead, c, m
  <2>2. Later(answered, r)
    BY <1>2, <2>1, LaterRest DEF r
  <2> QED
    BY <1>1, <1>9, <1>10, <2>1, <2>2 DEF Ahead
<1>13. CASE links' = taken /\ UNCHANGED <<core, answered>>
  <2>1. EndsEarlyOrSplit'
    BY <1>4, <1>13, ReasonKept DEF LinkInv
  <2> QED
    BY <1>4, <1>10, <1>11, <1>12, <1>13, <2>1, LinksChange DEF LinkInv, TypeInv
<1>14. CASE MayEnd(halves) /\ CoreEnded /\ links' = CloseCoreSides(taken) /\ UNCHANGED answered
  <2>1. core' \in [life : Nat, running : BOOLEAN] /\ core'.life = core.life
    BY <1>14 DEF CoreEnded, LinkInv, TypeInv
  <2>2. EndsEarlyOrSplit'
    <3>1. ~logEnds
      BY <1>1, <1>4, NoLinkAssumption DEF Unheard
    <3> QED
      BY <1>4, <1>14, <2>1, <3>1 DEF EndsEarlyOrSplit, EarlyOrSplit, MayEnd, MustEnd
  <2>3. Narrowed(links', taken)
    BY <1>10, <1>14, CoreSidesNarrowed
  <2>4. AllFit(links', asked)
    BY <1>10, <1>11, <2>3, NarrowedFits
  <2>5. Ahead(links'[l], answered)
    BY <1>1, <1>10, <1>12, <2>3, NarrowedAhead
  <2>6. links' \in Seq(Link) /\ Len(links') = Len(links)
    BY <1>10, <2>3 DEF Narrowed
  <2> QED
    BY <1>4, <1>14, <2>1, <2>2, <2>4, <2>5, <2>6, LinksChange DEF LinkInv, TypeInv
<1>15. CASE /\ links' = taken /\ UNCHANGED core /\ Built(halves)
            /\ answered' = Append(answered, [number |-> halves[1].number, link |-> l])
  <2> DEFINE k == c[1].number
             answer == [number |-> k, link |-> l]
  <2>1. /\ n \in 2 .. Len(c) /\ c[1] \in Half /\ c[1].half = 1 /\ halves[1] = c[1]
    BY <1>2, <1>15, BuiltStarts DEF halves
  <2>2. k \in Nat \ {0} /\ l \in Nat
    BY <1>1, <2>1 DEF Half
  <2>3. k \in DOMAIN asked /\ asked[k].link = l
    BY <2>1 , <1>3 DEF Fits, Belongs
  <2>4. \A i \in 1 .. Len(answered) : answered[i].number < k
    BY <1>5, <2>1 DEF Ahead, Later, c
  <2>5. \A j \in 1 .. Len(r) : k < r[j].number
    BY <1>2, <1>3, <2>1, AfterWhole DEF Fits, r
  <2>6. \A j \in 1 .. Len(m) : k < m[j].number
    <3> SUFFICES ASSUME NEW j \in 1 .. Len(m) PROVE k < m[j].number
      OBVIOUS
    <3>4. 1 \in 1 .. Len(c) /\ 2 \in 1 .. Len(c)
      BY <1>2, <2>1
    <3>1. Place(c[1]) < Place(c[2]) /\ Place(c[2]) < Place(m[j])
      BY <1>3, <3>4 DEF Fits, Increasing, Before
    <3>2. m[j] \in Half /\ c[2] \in Half
      BY <1>2, <2>1, ElementOfSeq
    <3> QED
      BY <2>1, <3>1, <3>2, PlacesApart
  <2> HIDE DEF k
  <2>7. answered' = Append(answered, answer)
    BY <1>15, <2>1 DEF k
  <2>8. answer \in [number : Nat \ {0}, link : Nat]
    BY <2>2
  <2>9. answer.number = k /\ answer.link = l
    OBVIOUS
  <2> HIDE DEF answer
  <2>10. /\ answered \in Seq([number : Nat \ {0}, link : Nat])
         /\ DOMAIN answered = 1 .. Len(answered) /\ Len(answered) \in Nat
    BY TypeFacts DEF LinkInv
  <2>11. /\ answered' \in Seq([number : Nat \ {0}, link : Nat])
         /\ Len(answered') = Len(answered) + 1
         /\ answered'[Len(answered) + 1] = answer
         /\ \A i \in 1 .. Len(answered) : answered'[i] = answered[i]
    BY <2>7, <2>8, <2>10, AppendProperties
  <2>12. DOMAIN answered' = 1 .. Len(answered) + 1
    BY <2>11, LenProperties
  <2>22. \A i \in DOMAIN answered' :
           \/ i \in DOMAIN answered /\ answered'[i] = answered[i]
           \/ i = Len(answered) + 1 /\ answered'[i] = answer
    BY <2>10, <2>11, <2>12, SMTT(30)
  <2>13. UNCHANGED <<core, media, connectTimer, attempt, descriptors, clientConnection, asked>>
    BY <1>4, <1>15 DEF coreVars
  <2>14. DOMAIN links' = DOMAIN links
    BY <1>1, <1>10, <1>15, LenProperties
  <2>15. TypeInv'
    BY <1>10, <1>15, <2>11, <2>13 DEF LinkInv, TypeInv
  <2>16. AskedOnLinks'
    BY <2>13, <2>14 DEF LinkInv, AskedOnLinks
  <2>17. ConnectsOnce'
    <3>1. links' # <<>>
      BY <1>1, <1>10, <1>15, EmptySeq
    <3> QED
      BY <1>1, <1>10, <1>15, <2>13, <2>14, <3>1 DEF LinkInv, ConnectsOnce
  <2>18. LinksFit'
    BY <1>11, <1>15, <2>13 DEF LinksFit
  <2>19. AnsweredFirst'
    <3>1. \A i \in DOMAIN answered' : answered'[i].number \in DOMAIN asked
      BY <2>3, <2>9, <2>22 DEF LinkInv, AnsweredFirst
    <3>5. Later(answered, r) /\ Later(answered, m)
      BY <1>1, <1>9, <1>10, <1>12 DEF Ahead
    <3>2. \A i \in DOMAIN answered', j \in 1 .. Len(r) : answered'[i].number < r[j].number
      BY <2>5, <2>9, <2>10, <2>22, <3>5 DEF Later
    <3>3. \A i \in DOMAIN answered', j \in 1 .. Len(m) : answered'[i].number < m[j].number
      BY <2>6, <2>9, <2>10, <2>22, <3>5 DEF Later
    <3>4. Ahead(links'[l], answered')
      BY <1>1, <1>9, <1>10, <1>15, <2>11, <2>12, <3>2, <3>3 DEF Ahead, Later
    <3> QED
      BY <1>4, <2>13, <3>1, <3>4 DEF AnsweredFirst
  <2>20. AnswersAreOwn'
    <3>1. \A i \in DOMAIN answered' : asked[answered'[i].number].link = answered'[i].link
      BY <2>3, <2>9, <2>22 DEF LinkInv, AnswersAreOwn
    <3>2. \A i, j \in DOMAIN answered' : i < j => answered'[i].number < answered'[j].number
      <4> SUFFICES ASSUME NEW i \in DOMAIN answered', NEW j \in DOMAIN answered', i < j
                   PROVE  answered'[i].number < answered'[j].number
        OBVIOUS
      <4>1. i \in DOMAIN answered /\ answered'[i] = answered[i]
        BY <2>10, <2>12, <2>22
      <4>2. CASE j \in DOMAIN answered /\ answered'[j] = answered[j]
        BY <4>1, <4>2 DEF LinkInv, AnswersAreOwn
      <4>3. CASE answered'[j] = answer
        BY <2>4, <2>9, <2>10, <4>1, <4>3
      <4> QED
        BY <2>22, <4>2, <4>3
    <3> QED
      BY <2>13, <3>1, <3>2 DEF AnswersAreOwn
  <2>21. OneLinkPerLife' /\ EndsEarlyOrSplit'
    BY <1>4, <2>13 DEF LinkInv, OneLinkPerLife, EndsEarlyOrSplit, EarlyOrSplit
  <2> QED
    BY <2>15, <2>16, <2>17, <2>18, <2>19, <2>20, <2>21 DEF LinkInv
<1> QED
  BY <1>6, <1>13, <1>14, <1>15

\* The media process answers on the link it reads.
LEMMA MediaReadKeeps ==
  ASSUME LinkInv, NEW l \in DOMAIN links, NEW n \in 1 .. Len(links[l].toMedia), MediaRead(l, n)
  PROVE  LinkInv'
<1> DEFINE c == links[l].toCore
           m == links[l].toMedia
           r == Rest(m, n)
           link == [links[l] EXCEPT !.toMedia = r]
           taken == [links EXCEPT ![l].toMedia = Rest(@, n)]
           halves == Take(m, n)
<1>1. /\ links \in Seq(Link) /\ DOMAIN links = 1 .. Len(links) /\ l \in 1 .. Len(links)
      /\ links[l] \in Link
  BY TypeFacts DEF LinkInv
<1>2. c \in Seq(Half) /\ m \in Seq(Half) /\ n \in 1 .. Len(m)
  BY <1>1, LinkFields
<1>3. Fits(c, m, l, asked)
  BY <1>1 DEF LinkInv, LinksFit, AllFit
<1>4. /\ media /\ reads' = reads \cup {<<core.life, KindOf(halves)>>}
      /\ UNCHANGED <<core, coreVars, asked, answered>>
  BY DEF MediaRead
<1>5. \/ links' = taken /\ UNCHANGED media
      \/ Built(halves) /\ links' = Responded(taken, l, halves[1].number) /\ UNCHANGED media
      \/ links' = CloseMediaSides(taken) /\ media' = FALSE
  BY DEF MediaRead
<1> HIDE DEF halves
<1>6. r \in Seq(Half)
  BY <1>2, RestElements
<1>7. taken = [links EXCEPT ![l] = link]
  OBVIOUS
<1> HIDE DEF taken, r
<1>8. link \in Link /\ link.toCore = c /\ link.toMedia = r
  BY <1>1, <1>6 DEF Link
<1> HIDE DEF link, c, m
<1>9. /\ taken \in Seq(Link) /\ Len(taken) = Len(links)
      /\ \A k \in 1 .. Len(links) : taken[k] = IF k = l THEN link ELSE links[k]
  BY <1>1, <1>7, <1>8, LinkReplaced
<1>10. AllFit(taken, asked)
  <2>1. Fits(c, r, l, asked)
    BY <1>2, <1>3, FitsMediaTakes DEF r
  <2> QED
    BY <1>1, <1>8, <1>9, <2>1 DEF LinkInv, LinksFit, AllFit
<1>11. clientConnection # NoLink => clientConnection \in 1 .. Len(links)
  BY <1>1 DEF LinkInv, ConnectsOnce
<1>12. ASSUME clientConnection = l, clientConnection # NoLink
       PROVE  Later(answered, c) /\ Later(answered, m) /\ Later(answered, r)
  <2>1. Later(answered, c) /\ Later(answered, m)
    BY <1>12 DEF LinkInv, AnsweredFirst, Ahead, c, m
  <2>2. Later(answered, r)
    BY <1>2, <2>1, LaterRest DEF r
  <2> QED
    BY <2>1, <2>2
<1>13. clientConnection # NoLink => Ahead(taken[clientConnection], answered)
  <2> SUFFICES ASSUME clientConnection # NoLink PROVE Ahead(taken[clientConnection], answered)
    OBVIOUS
  <2>1. CASE clientConnection = l
    BY <1>1, <1>8, <1>9, <1>12, <2>1 DEF Ahead
  <2>2. CASE clientConnection # l
    BY <1>9, <1>11, <2>2 DEF LinkInv, AnsweredFirst
  <2> QED
    BY <2>1, <2>2
<1>14. EndsEarlyOrSplit'
  BY <1>4, ReasonKept DEF LinkInv
<1>15. core' \in [life : Nat, running : BOOLEAN] /\ core'.life = core.life
  BY <1>4 DEF LinkInv, TypeInv
<1>16. CASE links' = taken /\ UNCHANGED media
  BY <1>4, <1>9, <1>10, <1>13, <1>14, <1>15, <1>16, LinksChange DEF LinkInv, TypeInv
<1>17. CASE links' = CloseMediaSides(taken) /\ media' = FALSE
  <2>1. Narrowed(links', taken)
    BY <1>9, <1>17, MediaSidesNarrowed
  <2>2. AllFit(links', asked)
    BY <1>9, <1>10, <2>1, NarrowedFits
  <2>3. clientConnection # NoLink => Ahead(links'[clientConnection], answered)
    BY <1>9, <1>11, <1>13, <2>1, NarrowedAhead
  <2>4. links' \in Seq(Link) /\ Len(links') = Len(links)
    BY <1>9, <2>1 DEF Narrowed
  <2> QED
    BY <1>4, <1>14, <1>15, <1>17, <2>2, <2>3, <2>4, LinksChange
<1>18. CASE Built(halves) /\ links' = Responded(taken, l, halves[1].number) /\ UNCHANGED media
  <2> DEFINE k == m[1].number
             d == c \o Halves(k)
             responded == [link EXCEPT !.toCore = d]
  <2>1. n \in 2 .. Len(m) /\ m[1] \in Half /\ m[1].half = 1 /\ halves[1] = m[1]
    BY <1>2, <1>18, BuiltStarts DEF halves
  <2>2. k \in Nat \ {0}
    BY <2>1 DEF Half
  <2>3. CASE taken[l].core # "open"
    <3>1. links' = taken
      BY <1>18, <2>3 DEF Responded
    <3> QED
      BY <1>16, <1>18, <3>1
  <2>4. CASE taken[l].core = "open"
    <3>1. taken[l] = link
      BY <1>1, <1>9
    <3>2. links' = [taken EXCEPT ![l] = responded]
      BY <1>8, <1>18, <2>1, <2>4, <3>1 DEF Responded
    <3>3. d \in Seq(Half)
      BY <1>2, <2>2, AppendHalves
    <3>4. Fits(d, r, l, asked)
      BY <1>2, <1>3, <2>1, FitsMediaResponds DEF r
    <3>5. ASSUME clientConnection = l, clientConnection # NoLink
          PROVE  Later(answered, d)
      <4>1. Later(answered, c) /\ Later(answered, m)
        BY <1>12, <3>5
      <4>2. \A i \in 1 .. Len(answered) : answered[i].number < k
        BY <2>1, <4>1 DEF Later
      <4> HIDE DEF k
      <4> QED
        BY <1>2, <2>2, <4>1, <4>2, LaterAppend
    <3> HIDE DEF d, k
    <3>6. responded \in Link /\ responded.toCore = d /\ responded.toMedia = r
      BY <1>8, <3>3 DEF Link
    <3> HIDE DEF responded
    <3>7. /\ links' \in Seq(Link) /\ Len(links') = Len(links)
          /\ \A j \in 1 .. Len(links) : links'[j] = IF j = l THEN responded ELSE taken[j]
      BY <1>1, <1>9, <3>2, <3>6, LinkReplaced
    <3>8. AllFit(links', asked)
      BY <1>9, <1>10, <3>4, <3>6, <3>7 DEF AllFit
    <3>9. ASSUME clientConnection # NoLink PROVE Ahead(links'[clientConnection], answered)
      <4>1. CASE clientConnection = l
        BY <1>1, <1>12, <3>5, <3>6, <3>7, <3>9, <4>1 DEF Ahead
      <4>2. CASE clientConnection # l
        BY <1>11, <1>13, <3>7, <3>9, <4>2
      <4> QED
        BY <4>1, <4>2
    <3> QED
      BY <1>4, <1>14, <1>15, <1>18, <3>7, <3>8, <3>9, LinksChange DEF LinkInv, TypeInv
  <2> QED
    BY <2>3, <2>4
<1> QED
  BY <1>5, <1>16, <1>17, <1>18

-----------------------------------------------------------------------------
(* Requests *)

\* The request is written to the link, or lost.
LEMMA WrittenFits ==
  ASSUME TypeInv, LinksFit, NEW l \in 1 .. Len(links),
         NEW r \in [link : Nat, life : Nat], r.link = l,
         NEW new, new = Written(links, l, Len(asked) + 1),
         \A i \in DOMAIN answered : answered[i].number \in DOMAIN asked,
         Ahead(links[l], answered)
  PROVE  /\ new \in Seq(Link) /\ Len(new) = Len(links)
         /\ AllFit(new, Append(asked, r))
         /\ Ahead(new[l], answered)
<1> DEFINE c == links[l].toCore
           m == links[l].toMedia
           k == Len(asked) + 1
           d == m \o Halves(k)
           link == [links[l] EXCEPT !.toMedia = d]
           after == Append(asked, r)
<1>1. /\ links \in Seq(Link) /\ links[l] \in Link
      /\ asked \in Seq([link : Nat, life : Nat]) /\ DOMAIN asked = 1 .. Len(asked)
      /\ Len(asked) \in Nat
  BY TypeFacts
<1>2. c \in Seq(Half) /\ m \in Seq(Half) /\ k \in Nat \ {0}
  BY <1>1, LinkFields
<1>3. AllFit(links, after)
  BY <1>1, FitsMoreRequests DEF LinksFit, AllFit
<1>4. CASE new = links
  BY <1>1, <1>3, <1>4
<1>5. CASE new = [links EXCEPT ![l] = link]
  <2>1. d \in Seq(Half)
    BY <1>2, AppendHalves
  <2>2. Fits(c, d, l, after)
    BY <1>1, <1>2, FitsWritten DEF LinksFit, AllFit
  <2>3. Later(answered, c) /\ Later(answered, m)
    BY DEF Ahead
  <2>4. \A i \in 1 .. Len(answered) : answered[i].number < k
    <3>1. DOMAIN answered = 1 .. Len(answered)
      BY TypeFacts
    <3>2. \A i \in 1 .. Len(answered) : answered[i].number \in 1 .. Len(asked)
      BY <1>1, <3>1
    <3> QED
      BY <1>1, <3>2
  <2> HIDE DEF k
  <2>5. Later(answered, d)
    BY <1>2, <2>3, <2>4, LaterAppend
  <2> HIDE DEF d, after
  <2>6. link \in Link /\ link.toCore = c /\ link.toMedia = d
    BY <1>1, <2>1 DEF Link
  <2>10. new = [links EXCEPT ![l] = link]
    BY <1>5
  <2> HIDE DEF link, c, m
  <2>11. /\ [links EXCEPT ![l] = link] \in Seq(Link)
         /\ Len([links EXCEPT ![l] = link]) = Len(links)
         /\ \A j \in 1 .. Len(links) :
              [links EXCEPT ![l] = link][j] = IF j = l THEN link ELSE links[j]
    BY <1>1, <2>6, LinkReplaced
  <2>7. /\ new \in Seq(Link) /\ Len(new) = Len(links)
        /\ \A j \in 1 .. Len(links) : new[j] = IF j = l THEN link ELSE links[j]
    BY <2>10, <2>11
  <2>8. AllFit(new, after)
    BY <1>3, <2>2, <2>6, <2>7 DEF AllFit
  <2>9. Ahead(new[l], answered)
    BY <2>3, <2>5, <2>6, <2>7 DEF Ahead
  <2> QED
    BY <2>7, <2>8, <2>9 DEF after
<1>6. new = links \/ new = [links EXCEPT ![l] = link]
  BY DEF Written
<1> QED
  BY <1>4, <1>5, <1>6

\* A request of a life on its only link.
LEMMA AskKeeps ==
  ASSUME LinkInv, NEW l \in 1 .. Len(links), core.running,
         asked' = Append(asked, [link |-> l, life |-> core.life]),
         links' = Written(links, l, Len(asked')),
         UNCHANGED <<core, media, descriptors, answered>>,
         attempt' = "none", connectTimer' = FALSE, clientConnection' = l,
         \A i \in DOMAIN asked : asked[i].life = core.life => asked[i].link = l,
         Ahead(links[l], answered)
  PROVE  LinkInv'
<1> USE DEF LinkInv
<1> DEFINE r == [link |-> l, life |-> core.life]
<1>1. /\ links \in Seq(Link) /\ DOMAIN links = 1 .. Len(links) /\ Len(links) \in Nat
      /\ asked \in Seq([link : Nat, life : Nat]) /\ DOMAIN asked = 1 .. Len(asked)
      /\ Len(asked) \in Nat
  BY TypeFacts
<1>2. core.life \in Nat
  BY DEF TypeInv
<1>3. r \in [link : Nat, life : Nat] /\ r.link = l /\ r.life = core.life
  BY <1>1, <1>2
<1>4. asked' = Append(asked, r)
  OBVIOUS
<1> HIDE DEF r
<1>5. /\ asked' \in Seq([link : Nat, life : Nat]) /\ Len(asked') = Len(asked) + 1
      /\ asked'[Len(asked) + 1] = r /\ \A i \in 1 .. Len(asked) : asked'[i] = asked[i]
  BY <1>1, <1>3, <1>4, AppendProperties
<1>6. DOMAIN asked' = 1 .. Len(asked) + 1
  BY <1>5, LenProperties
<1>7. \A i \in DOMAIN asked' :
        \/ i \in DOMAIN asked /\ asked'[i] = asked[i]
        \/ i = Len(asked) + 1 /\ asked'[i] = r
  BY <1>1, <1>5, <1>6
<1>8. \A i \in DOMAIN asked : i \in DOMAIN asked' /\ asked'[i] = asked[i]
  BY <1>1, <1>5, <1>6
<1>9. /\ links' \in Seq(Link) /\ Len(links') = Len(links) /\ AllFit(links', asked')
      /\ Ahead(links'[l], answered)
  <2>1. links' = Written(links, l, Len(asked) + 1)
    BY <1>5
  <2> QED
    BY <1>3, <1>4, <2>1, WrittenFits DEF AnsweredFirst
<1>10. DOMAIN links' = 1 .. Len(links)
  BY <1>9, LenProperties
<1>11. l # NoLink /\ l \in Nat
  BY <1>1, NoLinkAssumption
<1>12. TypeInv'
  BY <1>5, <1>9, <1>11 DEF TypeInv
<1>13. AskedOnLinks'
  BY <1>1, <1>2, <1>3, <1>7, <1>10 DEF AskedOnLinks
<1>14. ConnectsOnce'
  BY <1>3, <1>7, <1>10, <1>11 DEF ConnectsOnce
<1>15. LinksFit'
  BY <1>9 DEF LinksFit
<1>16. AnsweredFirst'
  BY <1>8, <1>9 DEF AnsweredFirst
<1>17. EndsEarlyOrSplit'
  BY DEF EndsEarlyOrSplit, EarlyOrSplit
<1>18. AnswersAreOwn'
  BY <1>8 DEF AnswersAreOwn, AnsweredFirst
<1>19. OneLinkPerLife'
  BY <1>3, <1>7 DEF OneLinkPerLife
<1> QED
  BY <1>12, <1>13, <1>14, <1>15, <1>16, <1>17, <1>18, <1>19

\* A request is posted before there is a connection, or where making it ends the
\* process: nothing is asked.
LEMMA EndKeeps ==
  ASSUME LinkInv, CoreEnded, links' = CloseCoreSides(links),
         UNCHANGED <<media, coreVars, asked, answered, reads>>,
         \A i \in DOMAIN asked : asked[i].life # core.life
  PROVE  LinkInv'
<1>1. core' \in [life : Nat, running : BOOLEAN] /\ core'.life = core.life
  BY DEF CoreEnded, LinkInv, TypeInv
<1>2. EndsEarlyOrSplit'
  BY <1>1 DEF EndsEarlyOrSplit, EarlyOrSplit
<1>3. Narrowed(links', links)
  BY CoreSidesNarrowed DEF LinkInv, TypeInv
<1> QED
  BY <1>1, <1>2, <1>3, LinksNarrow DEF LinkInv, TypeInv

\* The first connection of a life, whose first request is never made.
LEMMA ConnectedEndKeeps ==
  ASSUME LinkInv, OnConnect, logEnds, asked = <<>>
  PROVE  LinkInv'
<1> USE DEF LinkInv
<1> DEFINE l == Len(links)
<1>1. /\ core.running /\ attempt = "established" /\ attempt' = "none" /\ connectTimer' = FALSE
      /\ clientConnection' = l /\ CoreEnded /\ links' = CloseCoreSides(links)
      /\ UNCHANGED <<asked, media, descriptors, answered, reads>>
  BY DEF OnConnect, Request
<1>2. /\ links \in Seq(Link) /\ DOMAIN links = 1 .. Len(links) /\ Len(links) \in Nat
      /\ DOMAIN answered = 1 .. Len(answered) /\ Len(answered) \in Nat
  BY TypeFacts
<1>3. l \in 1 .. Len(links)
  BY <1>1, <1>2, EmptySeq DEF ConnectsOnce
<1>4. core' \in [life : Nat, running : BOOLEAN] /\ core'.life = core.life
  BY <1>1 DEF CoreEnded, TypeInv
<1>5. Narrowed(links', links)
  BY <1>1, <1>2, CoreSidesNarrowed
<1>6. links' \in Seq(Link) /\ Len(links') = Len(links) /\ DOMAIN links' = 1 .. Len(links)
  BY <1>5, LenProperties DEF Narrowed
<1>7. DOMAIN asked = {} /\ asked' = asked /\ answered' = answered
  BY <1>1
<1>8. DOMAIN answered = {}
  BY <1>7 DEF AnsweredFirst
<1>9. l # NoLink /\ l \in Nat
  BY <1>2, NoLinkAssumption
<1>10. TypeInv'
  BY <1>1, <1>4, <1>6, <1>9 DEF TypeInv
<1>11. AskedOnLinks' /\ AnswersAreOwn' /\ OneLinkPerLife'
  BY <1>7, <1>8 DEF AskedOnLinks, AnswersAreOwn, OneLinkPerLife
<1>12. ConnectsOnce'
  BY <1>1, <1>3, <1>6, <1>7, <1>9 DEF ConnectsOnce
<1>13. LinksFit'
  BY <1>2, <1>5, <1>7, NarrowedFits DEF LinksFit
<1>14. AnsweredFirst'
  <2>1. Len(answered) = 0
    BY <1>2, <1>8
  <2>2. \A s : Later(answered, s)
    BY <2>1 DEF Later
  <2> QED
    BY <1>7, <1>8, <2>2 DEF AnsweredFirst, Ahead
<1>15. EndsEarlyOrSplit'
  BY <1>7 DEF EndsEarlyOrSplit, EarlyOrSplit
<1> QED
  BY <1>10, <1>11, <1>12, <1>13, <1>14, <1>15

\* The first request of a life: none of it came before, and its link is empty.
LEMMA OnConnectKeeps ==
  ASSUME LinkInv, OnConnect, ~logEnds
  PROVE  LinkInv'
<1> DEFINE l == Len(links)
<1>1. /\ core.running /\ attempt = "established" /\ attempt' = "none" /\ connectTimer' = FALSE
      /\ clientConnection' = l /\ asked' = Append(asked, [link |-> l, life |-> core.life])
      /\ links' = Written(links, l, Len(asked'))
      /\ UNCHANGED <<core, media, descriptors, answered, reads>>
  BY DEF OnConnect, Request, Asked
<1>2. /\ clientConnection = NoLink /\ links # <<>>
      /\ \A i \in DOMAIN asked : asked[i].link # l
  BY <1>1 DEF LinkInv, ConnectsOnce
<1>3. l \in 1 .. Len(links)
  BY <1>2, EmptySeq DEF LinkInv, TypeInv
<1>4. \A i \in DOMAIN asked : asked[i].life # core.life
  <2>1. \A i \in DOMAIN asked : asked[i] \in [link : Nat, life : Nat]
    BY TypeFacts, ElementOfSeq DEF LinkInv
  <2> QED
    BY <1>2, <2>1, NoLinkAssumption DEF LinkInv, ConnectsOnce
<1>5. Ahead(links[l], answered)
  BY <1>2, <1>3 DEF LinkInv, LinksFit, AllFit, Fits, Belongs, Ahead, Later
<1> HIDE DEF l
<1> QED
  BY <1>1, <1>3, <1>4, <1>5, AskKeeps

LEMMA PostRequestKeeps ==
  ASSUME LinkInv, Unheard, PostRequest
  PROVE  LinkInv'
<1>1. core.running /\ UNCHANGED <<media, coreVars, answered, reads>>
  BY DEF PostRequest
<1>2. CASE clientConnection = NoLink \/ logEnds
  <2>1. CoreEnded /\ links' = CloseCoreSides(links) /\ UNCHANGED asked
    BY <1>2 DEF PostRequest, Request
  <2>2. \A i \in DOMAIN asked : asked[i].life # core.life
    <3>1. \A i \in DOMAIN asked : asked[i] \in [link : Nat, life : Nat]
      BY TypeFacts, ElementOfSeq DEF LinkInv
    <3>2. clientConnection = NoLink
      BY <1>1, <1>2 DEF Unheard
    <3> QED
      BY <3>1, <3>2, NoLinkAssumption DEF LinkInv, ConnectsOnce
  <2> QED
    BY <1>1, <2>1, <2>2, EndKeeps
<1>3. CASE clientConnection # NoLink /\ ~logEnds
  <2>1. /\ asked' = Append(asked, [link |-> clientConnection, life |-> core.life])
        /\ links' = Written(links, clientConnection, Len(asked')) /\ UNCHANGED core
    BY <1>3 DEF PostRequest, Request, Asked
  <2>2. clientConnection \in 1 .. Len(links)
    BY <1>3, TypeFacts DEF LinkInv, ConnectsOnce
  <2>3. attempt = "none" /\ connectTimer = FALSE
    BY <1>3 DEF LinkInv, ConnectsOnce, TypeInv
  <2>4. UNCHANGED <<media, connectTimer, attempt, descriptors, clientConnection, answered>>
    BY <1>1 DEF coreVars
  <2>5. \A i \in DOMAIN asked : asked[i].life = core.life => asked[i].link = clientConnection
    BY DEF LinkInv, ConnectsOnce
  <2>6. Ahead(links[clientConnection], answered)
    BY <1>3 DEF LinkInv, AnsweredFirst
  <2> QED
    BY <1>1, <2>1, <2>2, <2>3, <2>4, <2>5, <2>6, AskKeeps
<1> QED
  BY <1>2, <1>3

-----------------------------------------------------------------------------
(* The theorems *)

LEMMA InitEstablishes == Init => LinkInv
<1> SUFFICES ASSUME Init PROVE LinkInv
  OBVIOUS
<1>1. \A S : <<>> \in Seq(S)
  OBVIOUS
<1>2. Len(<<>>) = 0 /\ DOMAIN <<>> = {}
  OBVIOUS
<1>3. TypeInv
  BY <1>1 DEF Init, TypeInv
<1>4. AskedOnLinks /\ ConnectsOnce /\ LinksFit /\ AnsweredFirst
  BY <1>2 DEF Init, AskedOnLinks, ConnectsOnce, LinksFit, AllFit, AnsweredFirst
<1>5. EndsEarlyOrSplit /\ AnswersAreOwn /\ OneLinkPerLife
  BY <1>2 DEF Init, EndsEarlyOrSplit, EarlyOrSplit, AnswersAreOwn, OneLinkPerLife
<1> QED
  BY <1>3, <1>4, <1>5 DEF LinkInv

LEMMA UnheardInit == Init => Unheard
BY DEF Init, Unheard

LEMMA UnheardStep == LinkInv /\ Unheard /\ [Next]_vars => Unheard'
<1> SUFFICES ASSUME LinkInv, Unheard, [Next]_vars, logEnds'
             PROVE  asked' = <<>> /\ (core'.running => clientConnection' = NoLink)
  BY DEF Unheard
<1>1. logEnds /\ asked = <<>> /\ (core.running => clientConnection = NoLink)
  BY DEF Next, vars, Unheard
<1>2. CASE OnConnect \/ PostRequest
  <2>1. core'.running = FALSE /\ UNCHANGED asked
    BY <1>1, <1>2 DEF OnConnect, PostRequest, Request, CoreEnded, LinkInv, TypeInv
  <2> QED
    BY <1>1, <2>1
<1>3. CASE CoreStarts
  BY <1>1, <1>3 DEF CoreStarts
<1>4. CASE TryConnect \/ OnConnectFailed \/ MediaEnds \/ MediaStarts \/ UNCHANGED vars
  BY <1>1, <1>4 DEF TryConnect, OnConnectFailed, MediaEnds, MediaStarts, vars, coreVars
<1>5. ASSUME NEW l \in DOMAIN links, LinkNext(l)
      PROVE  asked' = <<>> /\ (core'.running => clientConnection' = NoLink)
  <2>1. UNCHANGED <<asked, clientConnection>> /\ (core'.running => core.running)
    BY <1>5 DEF LinkNext, ReadBy, ReadByMedia, CoreRead, CoreReadEnd, MediaOnConnect,
                MediaRead, MediaReadEnd, CoreEnded, CoreAtEnd, coreVars, LinkInv, TypeInv
  <2> QED
    BY <1>1, <2>1
<1> QED
  BY <1>2, <1>3, <1>4, <1>5 DEF Next

LEMMA StepKeeps == LinkInv /\ Unheard /\ [Next]_vars => LinkInv'
<1> SUFFICES ASSUME LinkInv, Unheard, [Next]_vars PROVE LinkInv'
  OBVIOUS
<1>1. CASE TryConnect
  BY <1>1, TryConnectKeeps
<1>2. CASE OnConnectFailed
  BY <1>2, OnConnectFailedKeeps
<1>3. CASE OnConnect
  BY <1>3, OnConnectKeeps, ConnectedEndKeeps DEF Unheard
<1>4. CASE PostRequest
  BY <1>4, PostRequestKeeps
<1>5. CASE CoreStarts
  BY <1>5, CoreStartsKeeps
<1>6. ASSUME NEW l \in DOMAIN links, LinkNext(l) PROVE LinkInv'
  <2>1. CASE ReadBy(l)
    BY <2>1, CoreReadKeeps DEF ReadBy
  <2>2. CASE CoreReadEnd(l)
    BY <2>2, CoreReadEndKeeps
  <2>3. CASE MediaOnConnect(l)
    BY <2>3, MediaOnConnectKeeps
  <2>4. CASE ReadByMedia(l)
    BY <2>4, MediaReadKeeps DEF ReadByMedia
  <2>5. CASE MediaReadEnd(l)
    BY <2>5, MediaReadEndKeeps
  <2> QED
    BY <1>6, <2>1, <2>2, <2>3, <2>4, <2>5 DEF LinkNext
<1>7. CASE MediaEnds
  BY <1>7, MediaEndsKeeps
<1>8. CASE MediaStarts
  BY <1>8, MediaStartsKeeps
<1>9. CASE UNCHANGED vars
  <2>1. UNCHANGED <<core, media, connectTimer, attempt, descriptors, clientConnection, links,
                    asked, answered, reads>>
    BY <1>9 DEF vars
  <2>2. TypeInv' /\ AskedOnLinks' /\ ConnectsOnce'
    BY <2>1 DEF LinkInv, TypeInv, AskedOnLinks, ConnectsOnce
  <2>3. LinksFit' /\ AnsweredFirst' /\ EndsEarlyOrSplit' /\ AnswersAreOwn' /\ OneLinkPerLife'
    BY <2>1 DEF LinkInv, LinksFit, AnsweredFirst, EndsEarlyOrSplit, EarlyOrSplit, AnswersAreOwn, OneLinkPerLife
  <2> QED
    BY <2>2, <2>3 DEF LinkInv
<1> QED
  BY <1>1, <1>2, <1>3, <1>4, <1>5, <1>6, <1>7, <1>8, <1>9 DEF Next

LEMMA LinkInvariant == Spec => [](LinkInv /\ Unheard)
BY InitEstablishes, StepKeeps, UnheardInit, UnheardStep, PTL DEF Spec

\* Whatever the lives of both processes, and wherever TCP cuts or joins the
\* messages, the core handles responses to its own requests only, each once and
\* in their order (MediaClientInterface::on_read, MediaServerInterface::on_read).
THEOREM CoreHandlesOwnAnswers == Spec => []AnswersAreOwn
<1>1. LinkInv => AnswersAreOwn
  BY DEF LinkInv
<1> QED
  BY <1>1, LinkInvariant, PTL

\* Where a call through a null logger ends the process, the first connection ends the
\* core before REGISTER is written; elsewhere a request ends it only in a life that has
\* never been connected (PostRequest writes to no stream), else a read within a message.
THEOREM CoreEnds == Spec => []CoreEndsAsBuilt
<1>1. LinkInv /\ Unheard => CoreEndsAsBuilt
  BY DEF LinkInv, Unheard, CoreEndsAsBuilt, EndsEarlyOrSplit
<1> QED
  BY <1>1, LinkInvariant, PTL

\* However often attempts fail before, a life of the core has one link at most:
\* the timer is stopped by the first success, and nothing starts it again.
THEOREM LivesConnectOnce == Spec => []OneLinkPerLife
<1>1. LinkInv => OneLinkPerLife
  BY DEF LinkInv
<1> QED
  BY <1>1, LinkInvariant, PTL
=============================================================================
