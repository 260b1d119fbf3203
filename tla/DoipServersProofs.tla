-------------------------- MODULE DoipServersProofs --------------------------
(***************************************************************************)
(* The framing of the two DoIP servers, for every cut of the bytes into    *)
(* segments, any number of testers, sessions and frames, and frames of any *)
(* length.                                                                 *)
(*                                                                         *)
(* The key is the Stream of a tester: the bytes in the receive buffer and  *)
(* behind them those that are still under way.  A segment that arrives     *)
(* moves bytes along it and changes nothing.  The stream belongs to one    *)
(* session (SessionsInv), and as long as nothing was dropped it consists   *)
(* of whole frames in order, which are just those of the session that have *)
(* not been handled (StreamInv).                                           *)
(***************************************************************************)
EXTENDS DoipServers, SequenceTheorems, TLAPS

Bytes == Nat \X Nat
Frames == [tester : Testers, session : Nat, plen : Nat,
           type : {"activation", "diagnostic", "foreign", "other"}]

Typing ==
  /\ conn \in Testers \cup {None}
  /\ routing_active \in BOOLEAN /\ processing \in BOOLEAN
  /\ running \in BOOLEAN /\ ended \in BOOLEAN
  /\ rx_buf \in Seq(Bytes) /\ rx_len \in 0 .. Width - 1
  /\ rx_len <= kRxBufSize => rx_len = Len(rx_buf)
  /\ queued \in SUBSET Testers /\ attached \in SUBSET Testers
  /\ sessions \in Nat /\ session \in [Testers -> 0 .. sessions]
  /\ to_server \in [Testers -> Seq(Bytes)]
  /\ sent \in Seq(Frames) /\ \A n \in Numbers : Session(n) \in 1 .. sessions
  /\ handled \in SUBSET Numbers
  /\ dispatched \in Seq(Nat) /\ \A i \in DOMAIN dispatched : dispatched[i] \in handled

\* A tester has a session, or bytes of it are left, only as long as it is being served
\* or waits to be; the end of a session is the last that arrives of it.
Control ==
  /\ server = "DoipTcpServer" => /\ queued = {} /\ attached = {conn} \ {None}
                                 /\ routing_active => conn # None
                                 /\ conn # None => rx_len <= kRxBufSize
  /\ server # "DoipTcpServer" => attached = {} /\ rx_buf = << >> /\ overrun = {}
  /\ conn = None => rx_buf = << >>
  /\ conn \notin queued
  /\ \A t \in Testers \ (queued \cup {conn}) : session[t] = 0 /\ to_server[t] = << >>
  /\ \A t \in queued \cup ({conn} \ {None}) : session[t] = 0 =>
       to_server[t] # << >> /\ to_server[t][Len(to_server[t])] = Fin

Stream(t) == IF conn = t THEN rx_buf \o to_server[t] ELSE to_server[t]

\* q is the session of t, or the one that it has ended and of which bytes are left.
In(t, q) ==
  \/ session[t] = q
  \/ \E k \in DOMAIN Stream(t) : Stream(t)[k] # Fin /\ Session(Stream(t)[k][1]) = q

SessionsInv ==
  \A t, u \in Testers : \A p, q \in 1 .. sessions : In(t, p) /\ In(u, q) => (t = u <=> p = q)

\* A byte of a frame comes with all the others, at their places.
Whole(s, frames) ==
  \A k \in DOMAIN s : s[k] # Fin =>
    /\ s[k][2] \in 1 .. Length(frames[s[k][1]]) /\ s[k][2] <= k
    /\ k - s[k][2] + Length(frames[s[k][1]]) <= Len(s)
    /\ \A i \in 1 .. Length(frames[s[k][1]]) : s[k - s[k][2] + i] = <<s[k][1], i>>

Ordered(s) ==
  \A j, k \in DOMAIN s : j < k /\ s[k] # Fin =>
    \/ s[j][1] < s[k][1]
    \/ s[j][1] = s[k][1] /\ s[k][2] - s[j][2] = k - j

\* The frames of a stream that has lost nothing: of the session, and not handled.
Pending(t, q) ==
  /\ Whole(Stream(t), sent) /\ Ordered(Stream(t))
  /\ \A k \in DOMAIN Stream(t) : Stream(t)[k][1] \notin handled
  /\ \A m \in Numbers \ handled : Session(m) = q =>
       \E k \in DOMAIN Stream(t) : Stream(t)[k] = <<m, 1>>

TesterInv(t) ==
  /\ \A k \in DOMAIN Stream(t) :
       IF Stream(t)[k] = Fin THEN k = Len(Stream(t)) /\ session[t] = 0
       ELSE Stream(t)[k][1] \in Numbers
  /\ \A q \in (1 .. sessions) \ overrun : In(t, q) => Pending(t, q)

StreamInv == \A t \in Testers : TesterInv(t)

\* The session being served is the last that requests were dispatched of; routing is
\* active for it only by an activation of its own.
ServingInv ==
  /\ \A t \in queued : \A q \in 1 .. sessions, n \in handled : In(t, q) => Session(n) # q
  /\ \A q \in (1 .. sessions) \ overrun : conn # None /\ In(conn, q) =>
       /\ \A i, j \in DOMAIN dispatched :
            i < j /\ Session(dispatched[i]) = q => Session(dispatched[j]) = q
       /\ routing_active => \E m \in handled : Session(m) = q /\ sent[m].type = "activation"

DInv ==
  /\ Typing /\ Control /\ SessionsInv /\ StreamInv /\ ServingInv
  /\ DispatchFollowsSession /\ ActivatedFirst

-----------------------------------------------------------------------------
(* Sequences of bytes. *)

LEMMA Lengths ==
  ASSUME NEW f \in Frames
  PROVE  Length(f) \in Nat \ {0} /\ Length(f) >= kHeaderSize
BY LengthsAssumption DEF Length, Frames

LEMMA Concatenated ==
  ASSUME NEW a \in Seq(Bytes), NEW b \in Seq(Bytes)
  PROVE  /\ a \o b \in Seq(Bytes) /\ Len(a \o b) = Len(a) + Len(b)
         /\ DOMAIN (a \o b) = 1 .. Len(a) + Len(b) /\ DOMAIN a = 1 .. Len(a)
         /\ DOMAIN b = 1 .. Len(b) /\ Len(a) \in Nat /\ Len(b) \in Nat
         /\ \A k \in 1 .. Len(a) : (a \o b)[k] = a[k]
         /\ \A k \in 1 .. Len(b) : (a \o b)[Len(a) + k] = b[k]
         /\ \A k \in 1 .. Len(a) + Len(b) : (a \o b)[k] = IF k <= Len(a) THEN a[k] ELSE b[k - Len(a)]
<1>1. /\ a \o b \in Seq(Bytes) /\ Len(a \o b) = Len(a) + Len(b)
      /\ \A k \in 1 .. Len(a) + Len(b) : (a \o b)[k] = IF k <= Len(a) THEN a[k] ELSE b[k - Len(a)]
  BY ConcatProperties
<1>2. /\ DOMAIN a = 1 .. Len(a) /\ DOMAIN b = 1 .. Len(b) /\ Len(a) \in Nat /\ Len(b) \in Nat
      /\ DOMAIN (a \o b) = 1 .. Len(a \o b)
  BY <1>1, LenProperties
<1>3. \A k \in 1 .. Len(b) : (a \o b)[Len(a) + k] = b[k]
  <2> TAKE k \in 1 .. Len(b)
  <2>1. Len(a) + k \in 1 .. Len(a) + Len(b) /\ ~(Len(a) + k <= Len(a)) /\ Len(a) + k - Len(a) = k
    BY <1>2
  <2> QED
    BY <1>1, <2>1
<1>4. \A k \in 1 .. Len(a) : (a \o b)[k] = a[k]
  BY <1>1, <1>2
<1> QED
  BY <1>1, <1>2, <1>3, <1>4

LEMMA Same ==
  ASSUME NEW a \in Seq(Bytes), NEW b \in Seq(Bytes), Len(a) = Len(b),
         \A k \in 1 .. Len(a) : a[k] = b[k]
  PROVE  a = b
BY SeqEqual

LEMMA Associative ==
  ASSUME NEW a \in Seq(Bytes), NEW b \in Seq(Bytes), NEW c \in Seq(Bytes)
  PROVE  (a \o b) \o c = a \o (b \o c)
BY ConcatAssociative

\* A sequence without its first n elements, and these.
LEMMA Cut ==
  ASSUME NEW s \in Seq(Bytes), NEW n \in 0 .. Len(s)
  PROVE  /\ SubSeq(s, 1, n) \in Seq(Bytes) /\ Len(SubSeq(s, 1, n)) = n
         /\ \A k \in 1 .. n : SubSeq(s, 1, n)[k] = s[k]
         /\ SubSeq(s, n + 1, Len(s)) \in Seq(Bytes)
         /\ Len(SubSeq(s, n + 1, Len(s))) = Len(s) - n
         /\ DOMAIN SubSeq(s, n + 1, Len(s)) = 1 .. Len(s) - n
         /\ \A k \in 1 .. Len(s) - n : SubSeq(s, n + 1, Len(s))[k] = s[k + n]
<1> DEFINE a == SubSeq(s, 1, n)
           b == SubSeq(s, n + 1, Len(s))
<1>1. Len(s) \in Nat /\ n \in Nat /\ n <= Len(s)
  BY LenProperties
<1>2. (\A k \in 1 .. n : s[k] \in Bytes) /\ \A k \in n + 1 .. Len(s) : s[k] \in Bytes
  BY <1>1, ElementOfSeq
<1>3. /\ a \in Seq(Bytes) /\ Len(a) = (IF 1 <= n THEN n - 1 + 1 ELSE 0)
      /\ \A k \in 1 .. n - 1 + 1 : a[k] = s[1 + k - 1]
  <2> HIDE DEF a
  <2> QED
    BY <1>1, <1>2, SubSeqProperties DEF a
<1>4. /\ b \in Seq(Bytes)
      /\ Len(b) = (IF n + 1 <= Len(s) THEN Len(s) - (n + 1) + 1 ELSE 0)
      /\ \A k \in 1 .. Len(s) - (n + 1) + 1 : b[k] = s[n + 1 + k - 1]
  <2>1. n + 1 \in Int /\ Len(s) \in Int
    BY <1>1
  <2> QED
    BY <1>2, <2>1, SubSeqProperties
<1>5. DOMAIN b = 1 .. Len(b)
  BY <1>4, LenProperties
<1> HIDE DEF a, b
<1>6. Len(a) = n /\ \A k \in 1 .. n : a[k] = s[k]
  BY <1>1, <1>3
<1>7. Len(b) = Len(s) - n /\ \A k \in 1 .. Len(s) - n : b[k] = s[k + n]
  BY <1>1, <1>4
<1> QED
  BY <1>3, <1>4, <1>5, <1>6, <1>7 DEF a, b

\* A segment moves from the link into the buffer.
LEMMA Moved ==
  ASSUME NEW a \in Seq(Bytes), NEW b \in Seq(Bytes), NEW n \in 0 .. Len(b)
  PROVE  (a \o SubSeq(b, 1, n)) \o SubSeq(b, n + 1, Len(b)) = a \o b
<1> DEFINE c == SubSeq(b, 1, n)
           d == SubSeq(b, n + 1, Len(b))
<1>1. /\ c \in Seq(Bytes) /\ d \in Seq(Bytes) /\ Len(c) = n /\ Len(d) = Len(b) - n
      /\ (\A k \in 1 .. n : c[k] = b[k]) /\ \A k \in 1 .. Len(b) - n : d[k] = b[k + n]
  BY Cut
<1>2. Len(b) \in Nat /\ n \in Nat /\ n <= Len(b)
  BY LenProperties
<1> HIDE DEF c, d
<1>3. c \o d = b
  <2>0. /\ c \o d \in Seq(Bytes) /\ Len(c \o d) = Len(c) + Len(d)
        /\ \A k \in 1 .. Len(c) + Len(d) :
             (c \o d)[k] = IF k <= Len(c) THEN c[k] ELSE d[k - Len(c)]
    BY <1>1, Concatenated
  <2>1. /\ c \o d \in Seq(Bytes) /\ Len(c \o d) = Len(b)
        /\ \A k \in 1 .. Len(b) : (c \o d)[k] = IF k <= n THEN c[k] ELSE d[k - n]
    BY <1>1, <1>2, <2>0
  <2>2. \A k \in 1 .. Len(b) : (c \o d)[k] = b[k]
    BY <1>1, <1>2, <2>1
  <2> QED
    BY <2>1, <2>2, Same
<1>4. (a \o c) \o d = a \o b
  BY <1>1, <1>3, Associative
<1> QED
  BY <1>4 DEF c, d

\* The bytes of a frame leave the buffer.
LEMMA FrontLeaves ==
  ASSUME NEW a \in Seq(Bytes), NEW b \in Seq(Bytes), NEW n \in 0 .. Len(a)
  PROVE  SubSeq(a, n + 1, Len(a)) \o b = SubSeq(a \o b, n + 1, Len(a \o b))
<1> DEFINE c == SubSeq(a, n + 1, Len(a))
           d == SubSeq(a \o b, n + 1, Len(a \o b))
<1>1. /\ Len(a) \in Nat /\ Len(b) \in Nat /\ n \in Nat /\ n <= Len(a)
      /\ a \o b \in Seq(Bytes) /\ Len(a \o b) = Len(a) + Len(b)
      /\ \A k \in 1 .. Len(a) + Len(b) : (a \o b)[k] = IF k <= Len(a) THEN a[k] ELSE b[k - Len(a)]
  BY LenProperties, Concatenated
<1>2. /\ c \in Seq(Bytes) /\ Len(c) = Len(a) - n
      /\ \A k \in 1 .. Len(a) - n : c[k] = a[k + n]
  BY Cut
<1>3. /\ d \in Seq(Bytes) /\ Len(d) = Len(a) + Len(b) - n
      /\ \A k \in 1 .. Len(a) + Len(b) - n : d[k] = (a \o b)[k + n]
  <2>1. n \in 0 .. Len(a \o b)
    BY <1>1
  <2> QED
    BY <1>1, <2>1, Cut
<1> HIDE DEF c, d
<1>4. /\ c \o b \in Seq(Bytes) /\ Len(c \o b) = Len(c) + Len(b)
      /\ \A k \in 1 .. Len(c) + Len(b) : (c \o b)[k] = IF k <= Len(c) THEN c[k] ELSE b[k - Len(c)]
  BY <1>2, Concatenated
<1>5. \A k \in 1 .. Len(d) : (c \o b)[k] = d[k]
  <2> TAKE k \in 1 .. Len(d)
  <2>1. k + n \in 1 .. Len(a) + Len(b) /\ k \in 1 .. Len(c) + Len(b)
    BY <1>1, <1>2, <1>3
  <2>2. CASE k <= Len(a) - n
    BY <1>1, <1>2, <1>3, <1>4, <2>1, <2>2
  <2>3. CASE ~(k <= Len(a) - n)
    <3>1. ~(k + n <= Len(a)) /\ k + n - Len(a) = k - Len(c)
      BY <1>1, <1>2, <2>1, <2>3
    <3> QED
      BY <1>1, <1>2, <1>3, <1>4, <2>1, <2>3, <3>1
  <2> QED
    BY <2>2, <2>3
<1>6. Len(c \o b) = Len(d)
  BY <1>1, <1>2, <1>3, <1>4
<1>7. c \o b = d
  BY <1>3, <1>4, <1>5, <1>6, Same
<1> QED
  BY <1>7 DEF c, d

-----------------------------------------------------------------------------
(* Streams of frames. *)

LEMMA FirstFrame ==
  ASSUME NEW s \in Seq(Bytes), NEW F \in Seq(Frames), s # << >>, s[1] # Fin,
         s[1][1] \in DOMAIN F, Whole(s, F)
  PROVE  /\ Length(F[s[1][1]]) \in 1 .. Len(s)
         /\ \A i \in 1 .. Length(F[s[1][1]]) : s[i] = <<s[1][1], i>>
<1> DEFINE n == s[1][1]
           L == Length(F[n])
<1>1. Len(s) \in Nat /\ DOMAIN s = 1 .. Len(s) /\ 1 \in DOMAIN s
  BY LenProperties, EmptySeq
<1>2. L \in Nat \ {0}
  <2>1. F[n] \in Frames
    BY LenProperties, ElementOfSeq
  <2> QED
    BY <2>1, Lengths
<1>3. /\ s[1][2] \in 1 .. L /\ s[1][2] <= 1 /\ 1 - s[1][2] + L <= Len(s)
      /\ \A i \in 1 .. L : s[1 - s[1][2] + i] = <<n, i>>
  BY <1>1 DEF Whole
<1> HIDE DEF n, L
<1>4. s[1][2] = 1
  BY <1>2, <1>3
<1>5. L \in 1 .. Len(s)
  BY <1>1, <1>2, <1>3, <1>4
<1>6. \A i \in 1 .. L : 1 - 1 + i = i
  BY <1>2
<1>7. \A i \in 1 .. L : s[i] = <<n, i>>
  BY <1>3, <1>4, <1>6
<1> QED
  BY <1>5, <1>7 DEF n, L

\* What Ordered and Whole say of single positions.
LEMMA OrderedAt ==
  ASSUME NEW s, Ordered(s), NEW j \in DOMAIN s, NEW k \in DOMAIN s, j < k, s[k] # Fin
  PROVE  \/ s[j][1] < s[k][1]
         \/ s[j][1] = s[k][1] /\ s[k][2] - s[j][2] = k - j
BY DEF Ordered

LEMMA WholeAt ==
  ASSUME NEW s, NEW F, Whole(s, F), NEW k \in DOMAIN s, s[k] # Fin
  PROVE  /\ s[k][2] \in 1 .. Length(F[s[k][1]]) /\ s[k][2] <= k
         /\ k - s[k][2] + Length(F[s[k][1]]) <= Len(s)
         /\ \A i \in 1 .. Length(F[s[k][1]]) : s[k - s[k][2] + i] = <<s[k][1], i>>
BY DEF Whole

\* r is s without its first L elements.
Rest(r, s, L) == Len(r) = Len(s) - L /\ \A k \in 1 .. Len(r) : r[k] = s[k + L]

\* The first frame leaves: the others stay whole and in order.
LEMMA FrameDropped ==
  ASSUME NEW s \in Seq(Bytes), NEW F \in Seq(Frames), s # << >>, s[1] # Fin,
         \A k \in DOMAIN s : s[k] # Fin => s[k][1] \in DOMAIN F,
         Whole(s, F), Ordered(s),
         NEW L, L = Length(F[s[1][1]]), NEW r \in Seq(Bytes), Rest(r, s, L)
  PROVE  /\ Whole(r, F) /\ Ordered(r)
         /\ \A k \in DOMAIN r : r[k][1] # s[1][1]
<1> DEFINE n == s[1][1]
<1>1. Len(s) \in Nat /\ DOMAIN s = 1 .. Len(s) /\ 1 \in DOMAIN s
  BY LenProperties, EmptySeq
<1>2. n \in DOMAIN F /\ n \in Nat \ {0} /\ DOMAIN F = 1 .. Len(F) /\ Len(F) \in Nat
  BY <1>1, LenProperties
<1>3. L \in 1 .. Len(s) /\ \A i \in 1 .. L : s[i] = <<n, i>>
  BY <1>1, <1>2, FirstFrame
<1>4. L \in Nat \ {0} /\ L <= Len(s) /\ DOMAIN r = 1 .. Len(r) /\ Len(r) \in Nat
  BY <1>1, <1>3, LenProperties
<1>a. Len(r) = Len(s) - L /\ \A k \in 1 .. Len(r) : r[k] = s[k + L]
  BY DEF Rest
<1>5. ASSUME NEW k \in DOMAIN r
      PROVE  k \in Nat /\ k + L \in DOMAIN s /\ 1 < k + L /\ L < k + L /\ r[k] = s[k + L]
  BY <1>1, <1>4, <1>a
<1>6. \A k \in DOMAIN s : s[k] \in Bytes /\ s[k][1] \in Nat /\ s[k][2] \in Nat
  BY <1>1, ElementOfSeq DEF Bytes
<1>7. ASSUME NEW p \in DOMAIN s, L < p, s[p][1] = n PROVE FALSE
  <2>1. s[p] # Fin
    BY <1>2, <1>7 DEF Fin
  <2>2. p \in Nat /\ 1 < p
    BY <1>1, <1>4, <1>7
  <2>3. \/ s[1][1] < s[p][1]
        \/ s[1][1] = s[p][1] /\ s[p][2] - s[1][2] = p - 1
    BY <1>1, <2>1, <2>2, OrderedAt
  <2>4. s[1][2] = 1 /\ s[p][2] \in Nat
    BY <1>3, <1>4, <1>6
  <2>5. s[p][2] \in 1 .. L
    BY <1>7, <2>1, WholeAt
  <2> QED
    BY <1>2, <1>4, <1>7, <2>2, <2>3, <2>4, <2>5
<1>8. Ordered(r)
  <2> SUFFICES ASSUME NEW j \in DOMAIN r, NEW k \in DOMAIN r, j < k, r[k] # Fin
               PROVE  \/ r[j][1] < r[k][1]
                      \/ r[j][1] = r[k][1] /\ r[k][2] - r[j][2] = k - j
    BY DEF Ordered
  <2> DEFINE a == j + L
             b == k + L
  <2>1. a \in DOMAIN s /\ b \in DOMAIN s /\ r[j] = s[a] /\ r[k] = s[b] /\ j \in Nat /\ k \in Nat
    BY <1>5
  <2>2. a < b /\ b - a = k - j
    BY <1>4, <2>1
  <2> HIDE DEF a, b
  <2>3. \/ s[a][1] < s[b][1]
        \/ s[a][1] = s[b][1] /\ s[b][2] - s[a][2] = b - a
    BY <2>1, <2>2, OrderedAt
  <2> QED
    BY <2>1, <2>2, <2>3
<1>9. Whole(r, F)
  <2> SUFFICES ASSUME NEW k \in DOMAIN r, r[k] # Fin
               PROVE  /\ r[k][2] \in 1 .. Length(F[r[k][1]]) /\ r[k][2] <= k
                      /\ k - r[k][2] + Length(F[r[k][1]]) <= Len(r)
                      /\ \A i \in 1 .. Length(F[r[k][1]]) : r[k - r[k][2] + i] = <<r[k][1], i>>
    BY DEF Whole
  <2> DEFINE p == k + L
             m == r[k][1]
             e == r[k][2]
             M == Length(F[m])
  <2>1. /\ r[k] = s[p] /\ p \in DOMAIN s /\ k \in Nat /\ L < p /\ s[p] # Fin
    BY <1>5
  <2>2. p \in Nat /\ p <= Len(s) /\ p - L = k
    BY <1>1, <1>4, <2>1
  <2> HIDE DEF p
  <2>3. m # n /\ m \in DOMAIN F /\ e \in Nat
    BY <1>6, <1>7, <2>1
  <2>4. M \in Nat \ {0}
    <3>1. F[m] \in Frames
      BY <1>2, <2>3, ElementOfSeq
    <3> QED
      BY <3>1, Lengths
  <2>5. /\ s[p][2] \in 1 .. Length(F[s[p][1]]) /\ s[p][2] <= p
        /\ p - s[p][2] + Length(F[s[p][1]]) <= Len(s)
        /\ \A i \in 1 .. Length(F[s[p][1]]) : s[p - s[p][2] + i] = <<s[p][1], i>>
    <3>1. Whole(s, F) /\ p \in DOMAIN s /\ s[p] # Fin
      BY <2>1
    <3> QED
      BY <3>1, WholeAt
  <2>6. e \in 1 .. M /\ e <= p /\ p - e + M <= Len(s)
    BY <2>1, <2>5
  <2>7. \A i \in 1 .. M : s[p - e + i] = <<m, i>>
    BY <2>1, <2>5
  <2> HIDE DEF m, e, M
  <2>8. e <= k
    <3> SUFFICES ASSUME e > k PROVE FALSE
      BY <2>1, <2>3
    <3>1. p - e + 1 \in 1 .. L /\ 1 \in 1 .. M
      BY <1>4, <2>2, <2>3, <2>4, <2>6
    <3>2. s[p - e + 1] = <<m, 1>>
      BY <2>7, <3>1
    <3>3. s[p - e + 1] = <<n, p - e + 1>>
      BY <1>3, <3>1
    <3> QED
      BY <2>3, <3>2, <3>3
  <2> DEFINE l == Len(s)
             keep == k
  <2>9. /\ keep - e + M <= l - L
        /\ \A i \in 1 .. M : keep - e + i \in 1 .. l - L /\ keep - e + i + L = p - e + i
    <3>1. /\ p \in Nat /\ keep \in Nat /\ L \in Nat /\ e \in Nat /\ M \in Nat /\ l \in Nat
          /\ p - L = keep /\ e \in 1 .. M /\ p - e + M <= l /\ e <= keep
      BY <1>1, <1>4, <2>1, <2>2, <2>3, <2>4, <2>6, <2>8
    <3> HIDE DEF l, keep
    <3>2. keep - e + M <= l - L
      BY ONLY <3>1
    <3>3. ASSUME NEW i \in 1 .. M PROVE keep - e + i >= 1
      BY ONLY <3>1, <3>3
    <3>4. ASSUME NEW i \in 1 .. M PROVE keep - e + i <= l - L /\ keep - e + i + L = p - e + i /\ keep - e + i \in Int
      BY ONLY <3>1, <3>4
    <3>5. \A i \in 1 .. M : keep - e + i \in 1 .. l - L /\ keep - e + i + L = p - e + i
      BY ONLY <3>1, <3>3, <3>4
    <3> QED
      BY ONLY <3>2, <3>5 DEF l, keep
  <2>10. ASSUME NEW i \in 1 .. M PROVE r[k - e + i] = <<m, i>>
    <3> DEFINE x == k - e + i
    <3>1. x \in 1 .. Len(r) /\ x + L = p - e + i
      BY <1>a, <2>9
    <3> HIDE DEF x
    <3>2. r[x] = s[p - e + i]
      BY <1>a, <3>1
    <3> QED
      BY <2>7, <3>2 DEF x
  <2> QED
    BY <1>a, <2>6, <2>8, <2>9, <2>10 DEF m, e, M
<1> QED
  BY <1>5, <1>7, <1>8, <1>9

LEMMA FrameBytes ==
  ASSUME NEW n \in Nat, NEW L \in Nat
  PROVE  /\ BytesOf(n, L) \in Seq(Bytes) /\ Len(BytesOf(n, L)) = L
         /\ \A k \in 1 .. L : BytesOf(n, L)[k] = <<n, k>>
<1>1. BytesOf(n, L) \in [1 .. L -> Bytes]
  BY DEF BytesOf, Bytes
<1>2. BytesOf(n, L) \in Seq(Bytes)
  BY <1>1, SeqDef
<1>3. DOMAIN BytesOf(n, L) = 1 .. L
  BY DEF BytesOf
<1>4. 1 .. Len(BytesOf(n, L)) = 1 .. L /\ Len(BytesOf(n, L)) \in Nat
  BY <1>2, <1>3, LenProperties
<1> QED
  BY <1>2, <1>4 DEF BytesOf

\* t is s and behind it the bytes of frame n.
Follows(t, s, n, L) == t = s \o BytesOf(n, L)

\* A frame is sent: it follows the others, whole.
LEMMA FrameAdded ==
  ASSUME NEW s \in Seq(Bytes), NEW F \in Seq(Frames), NEW f \in Frames,
         \A k \in DOMAIN s : s[k] # Fin /\ s[k][1] \in DOMAIN F,
         NEW t \in Seq(Bytes), Follows(t, s, Len(F) + 1, Length(f))
  PROVE  /\ DOMAIN t = 1 .. Len(s) + Length(f) /\ DOMAIN s = 1 .. Len(s) /\ Len(s) \in Nat
         /\ \A k \in 1 .. Len(s) : t[k] = s[k]
         /\ \A k \in 1 .. Length(f) : t[Len(s) + k] = <<Len(F) + 1, k>>
         /\ Whole(s, F) => Whole(t, Append(F, f))
         /\ Ordered(s) => Ordered(t)
<1> DEFINE m == Len(F) + 1
           L == Length(f)
           G == Append(F, f)
<1>1. /\ L \in Nat \ {0} /\ Len(F) \in Nat /\ m \in Nat /\ DOMAIN F = 1 .. Len(F)
      /\ Len(s) \in Nat
  BY Lengths, LenProperties
<1>2. G[m] = f /\ \A n \in DOMAIN F : G[n] = F[n]
  BY <1>1, AppendProperties
<1> HIDE DEF m, L, G
<1>3. /\ BytesOf(m, L) \in Seq(Bytes) /\ Len(BytesOf(m, L)) = L
      /\ \A k \in 1 .. L : BytesOf(m, L)[k] = <<m, k>>
  BY <1>1, FrameBytes
<1>4. /\ Len(t) = Len(s) + L /\ DOMAIN t = 1 .. Len(s) + L /\ DOMAIN s = 1 .. Len(s)
      /\ \A k \in 1 .. Len(s) : t[k] = s[k]
      /\ \A k \in 1 .. L : t[Len(s) + k] = <<m, k>>
  <2>1. t = s \o BytesOf(m, L)
    BY DEF m, L, Follows
  <2>2. /\ Len(t) = Len(s) + L /\ DOMAIN t = 1 .. Len(s) + L /\ DOMAIN s = 1 .. Len(s)
        /\ \A k \in 1 .. Len(s) : t[k] = s[k]
        /\ \A k \in 1 .. L : t[Len(s) + k] = BytesOf(m, L)[k]
    <3> DEFINE b == BytesOf(m, L)
    <3>1. b \in Seq(Bytes) /\ Len(b) = L /\ t = s \o b
      BY <1>3, <2>1
    <3> HIDE DEF b
    <3>2. /\ Len(s \o b) = Len(s) + Len(b) /\ DOMAIN (s \o b) = 1 .. Len(s) + Len(b)
          /\ DOMAIN s = 1 .. Len(s) /\ \A k \in 1 .. Len(s) : (s \o b)[k] = s[k]
          /\ \A k \in 1 .. Len(b) : (s \o b)[Len(s) + k] = b[k]
      BY <3>1, Concatenated
    <3> QED
      BY <3>1, <3>2 DEF b
  <2> QED
    BY <1>3, <2>2
<1>5. \A k \in DOMAIN t : k \in 1 .. Len(s) \/ \E e \in 1 .. L : k = Len(s) + e
  <2> SUFFICES ASSUME NEW k \in DOMAIN t, k \notin 1 .. Len(s)
               PROVE  \E e \in 1 .. L : k = Len(s) + e
    OBVIOUS
  <2>1. k - Len(s) \in 1 .. L /\ k = Len(s) + (k - Len(s))
    BY <1>1, <1>4
  <2> QED
    BY <2>1
<1>6. ASSUME Whole(s, F) PROVE Whole(t, G)
  <2> SUFFICES ASSUME NEW k \in DOMAIN t, t[k] # Fin
               PROVE  /\ t[k][2] \in 1 .. Length(G[t[k][1]]) /\ t[k][2] <= k
                      /\ k - t[k][2] + Length(G[t[k][1]]) <= Len(t)
                      /\ \A i \in 1 .. Length(G[t[k][1]]) : t[k - t[k][2] + i] = <<t[k][1], i>>
    BY DEF Whole
  <2>1. CASE k \in 1 .. Len(s)
    <3> DEFINE n == s[k][1]
               e == s[k][2]
               M == Length(F[n])
    <3>1. t[k] = s[k] /\ n \in DOMAIN F /\ s[k] # Fin /\ G[n] = F[n]
      BY <1>2, <1>4, <2>1
    <3>2. M \in Nat \ {0}
      BY <1>1, <3>1, ElementOfSeq, Lengths
    <3>3. /\ e \in 1 .. M /\ e <= k /\ k - e + M <= Len(s)
          /\ \A i \in 1 .. M : s[k - e + i] = <<n, i>>
      BY <1>4, <1>6, <2>1, <3>1 DEF Whole
    <3>4. t[k][1] = n /\ t[k][2] = e /\ Length(G[n]) = M
      BY <3>1
    <3> HIDE DEF n, e, M
    <3>5. \A i \in 1 .. M : k - e + i \in 1 .. Len(s)
      <4>1. /\ k \in Nat /\ e \in Nat /\ M \in Nat /\ Len(s) \in Nat
            /\ e <= k /\ k - e + M <= Len(s)
        BY <1>1, <2>1, <3>2, <3>3
      <4> HIDE DEF n, e, M
      <4> TAKE i \in 1 .. M
      <4>2. i \in Nat /\ 1 <= i /\ i <= M
        BY ONLY <4>1
      <4>3. k - e + i >= 1 /\ k - e + i <= Len(s) /\ k - e + i \in Int
        BY ONLY <4>1, <4>2
      <4> QED
        BY ONLY <4>1, <4>3
    <3>6. k - e + M <= Len(t)
      BY <1>1, <1>4, <2>1, <3>2, <3>3
    <3> QED
      BY <1>4, <3>3, <3>4, <3>5, <3>6
  <2>2. CASE k \notin 1 .. Len(s)
    <3> PICK e \in 1 .. L : k = Len(s) + e
      BY <1>5, <2>2
    <3>1. t[k] = <<m, e>> /\ Length(G[m]) = L
      BY <1>2, <1>4 DEF L
    <3>2. k - e = Len(s) /\ e <= k /\ k - e + L <= Len(t)
      BY <1>1, <1>4
    <3>3. t[k][1] = m /\ t[k][2] = e
      BY <3>1
    <3> QED
      BY <1>4, <3>1, <3>2, <3>3
  <2> QED
    BY <2>1, <2>2
<1>7. ASSUME Ordered(s) PROVE Ordered(t)
  <2> SUFFICES ASSUME NEW j \in DOMAIN t, NEW k \in DOMAIN t, j < k
               PROVE  \/ t[j][1] < t[k][1]
                      \/ t[j][1] = t[k][1] /\ t[k][2] - t[j][2] = k - j
    BY DEF Ordered
  <2>1. CASE k \in 1 .. Len(s)
    <3>1. j \in 1 .. Len(s)
      BY <1>1, <1>4, <2>1
    <3> QED
      BY <1>4, <1>7, <2>1, <3>1 DEF Ordered
  <2>2. ASSUME NEW e \in 1 .. L, k = Len(s) + e, j \in 1 .. Len(s) PROVE t[j][1] < t[k][1]
    <3>1. t[j][1] \in DOMAIN F /\ t[k] = <<m, e>>
      BY <1>4, <2>2
    <3> QED
      BY <1>1, <3>1 DEF m
  <2>3. ASSUME NEW e \in 1 .. L, k = Len(s) + e, NEW d \in 1 .. L, j = Len(s) + d
        PROVE  t[j][1] = t[k][1] /\ t[k][2] - t[j][2] = k - j
    <3>0. k - j = e - d
      BY <1>1, <2>3
    <3>1. t[j] = <<m, d>> /\ t[k] = <<m, e>> /\ k - j = e - d
      BY <1>4, <2>3, <3>0
    <3> QED
      BY <3>1
  <2> QED
    BY <1>5, <2>1, <2>2, <2>3
<1> QED
  BY <1>1, <1>4, <1>6, <1>7 DEF m, L, G

\* The tester closes: the end follows the bytes.
LEMMA EndAdded ==
  ASSUME NEW s \in Seq(Bytes), NEW F \in Seq(Frames), \A k \in DOMAIN s : s[k] # Fin /\ s[k][1] \in DOMAIN F,
         NEW t \in Seq(Bytes), t = Append(s, Fin)
  PROVE  /\ DOMAIN t = 1 .. Len(s) + 1 /\ DOMAIN s = 1 .. Len(s) /\ Len(s) \in Nat
         /\ Len(t) = Len(s) + 1 /\ t[Len(s) + 1] = Fin
         /\ \A k \in 1 .. Len(s) : t[k] = s[k]
         /\ Whole(s, F) => Whole(t, F)
         /\ Ordered(s) => Ordered(t)
<1>1. /\ DOMAIN t = 1 .. Len(s) + 1 /\ DOMAIN s = 1 .. Len(s) /\ Len(s) \in Nat
      /\ Len(t) = Len(s) + 1 /\ t[Len(s) + 1] = Fin
      /\ \A k \in 1 .. Len(s) : t[k] = s[k]
  <2>1. Fin \in Bytes
    BY DEF Fin, Bytes
  <2> QED
    BY <2>1, AppendProperties, LenProperties
<1>2. ASSUME Whole(s, F) PROVE Whole(t, F)
  <2> SUFFICES ASSUME NEW k \in DOMAIN t, t[k] # Fin
               PROVE  /\ t[k][2] \in 1 .. Length(F[t[k][1]]) /\ t[k][2] <= k
                      /\ k - t[k][2] + Length(F[t[k][1]]) <= Len(t)
                      /\ \A i \in 1 .. Length(F[t[k][1]]) : t[k - t[k][2] + i] = <<t[k][1], i>>
    BY DEF Whole
  <2> DEFINE M == Length(F[s[k][1]])
             e == s[k][2]
             n == s[k][1]
  <2>1. k \in 1 .. Len(s) /\ t[k] = s[k]
    BY <1>1
  <2>2. /\ e \in 1 .. M /\ e <= k /\ k - e + M <= Len(s)
        /\ \A i \in 1 .. M : s[k - e + i] = <<n, i>>
    BY <1>1, <1>2, <2>1 DEF Whole
  <2>3. t[k][1] = n /\ t[k][2] = e
    BY <2>1
  <2> HIDE DEF M, e, n
  <2>4. M \in Nat
    <3>1. n \in DOMAIN F
      BY <1>1, <2>1 DEF n
    <3> QED
      BY <3>1, LenProperties, ElementOfSeq, Lengths DEF M, n
  <2>5. \A i \in 1 .. M : k - e + i \in 1 .. Len(s)
    BY <1>1, <2>1, <2>2, <2>4
  <2>6. k - e + M <= Len(t)
    BY <1>1, <2>1, <2>2, <2>4
  <2> QED
    BY <1>1, <2>2, <2>3, <2>5, <2>6 DEF M, n
<1>3. ASSUME Ordered(s) PROVE Ordered(t)
  <2> SUFFICES ASSUME NEW j \in DOMAIN t, NEW k \in DOMAIN t, j < k, t[k] # Fin
               PROVE  \/ t[j][1] < t[k][1]
                      \/ t[j][1] = t[k][1] /\ t[k][2] - t[j][2] = k - j
    BY DEF Ordered
  <2>1. k \in 1 .. Len(s) /\ j \in 1 .. Len(s)
    BY <1>1
  <2> QED
    BY <1>1, <1>3, <2>1 DEF Ordered
<1> QED
  BY <1>1, <1>2, <1>3

-----------------------------------------------------------------------------
(* What a step does to the stream of one tester. *)

LEMMA Streams ==
  ASSUME Typing, NEW t \in Testers
  PROVE  /\ Stream(t) \in Seq(Bytes) /\ Len(Stream(t)) \in Nat
         /\ DOMAIN Stream(t) = 1 .. Len(Stream(t))
         /\ conn # t => Stream(t) = to_server[t]
         /\ \A k \in DOMAIN Stream(t) : /\ Stream(t)[k] \in Bytes /\ Stream(t)[k][1] \in Nat
                                        /\ Stream(t)[k][2] \in Nat
<1>1. rx_buf \in Seq(Bytes) /\ to_server[t] \in Seq(Bytes)
  BY DEF Typing
<1>2. rx_buf \o to_server[t] \in Seq(Bytes)
  BY <1>1, ConcatProperties
<1>3. Stream(t) \in Seq(Bytes) /\ (conn # t => Stream(t) = to_server[t])
  BY <1>1, <1>2 DEF Stream
<1>4. Len(Stream(t)) \in Nat /\ DOMAIN Stream(t) = 1 .. Len(Stream(t))
  BY <1>3, LenProperties
<1> HIDE DEF Stream
<1>5. \A k \in DOMAIN Stream(t) : Stream(t)[k] \in Bytes
  BY <1>3, <1>4, ElementOfSeq
<1> QED
  BY <1>3, <1>4, <1>5 DEF Bytes

\* The session of the bytes of a stream is a session of the tester.
LEMMA InIsSession ==
  ASSUME Typing, NEW t \in Testers, TesterInv(t)
  PROVE  /\ \A k \in DOMAIN Stream(t) : Stream(t)[k] # Fin =>
              /\ Stream(t)[k][1] \in Numbers
              /\ Session(Stream(t)[k][1]) \in 1 .. sessions
              /\ In(t, Session(Stream(t)[k][1]))
         /\ \A q : In(t, q) => q \in 0 .. sessions
<1>1. \A k \in DOMAIN Stream(t) : Stream(t)[k] # Fin => Stream(t)[k][1] \in Numbers
  BY DEF TesterInv
<1>2. \A k \in DOMAIN Stream(t) : Stream(t)[k] # Fin =>
        Session(Stream(t)[k][1]) \in 1 .. sessions /\ In(t, Session(Stream(t)[k][1]))
  BY <1>1 DEF Typing, In
<1>3. session[t] \in 0 .. sessions /\ sessions \in Nat
  BY DEF Typing
<1> QED
  BY <1>1, <1>2, <1>3 DEF In

LEMMA Emptied ==
  ASSUME NEW t \in Testers, session'[t] = 0, Stream(t)' = << >>
  PROVE  TesterInv(t)' /\ \A q \in 1 .. sessions' : ~In(t, q)'
<1>1. DOMAIN Stream(t)' = {}
  BY EmptySeq
<1>2. \A q \in 1 .. sessions' : ~In(t, q)'
  BY <1>1 DEF In
<1> QED
  BY <1>1, <1>2 DEF TesterInv

\* A step leaves the stream of a tester alone and handles no frame of its session.
LEMMA Kept ==
  ASSUME Typing, NEW t \in Testers, TesterInv(t),
         Stream(t)' = Stream(t), session'[t] = session[t], sent' = sent,
         sessions' \in Nat, sessions <= sessions', overrun \subseteq overrun',
         handled \subseteq handled', handled' \subseteq Numbers,
         \A n \in handled' \ handled : \A q \in 1 .. sessions : In(t, q) => Session(n) # q
  PROVE  /\ TesterInv(t)'
         /\ \A q \in 1 .. sessions' : In(t, q)' => q \in 1 .. sessions /\ In(t, q)
<1>1. \A q : In(t, q)' <=> In(t, q)
  BY DEF In, Session
<1>2. \A q \in 1 .. sessions' : In(t, q)' => q \in 1 .. sessions /\ In(t, q)
  <2>1. sessions \in Nat
    BY DEF Typing
  <2> QED
    BY <1>1, <2>1, InIsSession
<1>3. \A k \in DOMAIN Stream(t) : Stream(t)[k][1] \notin handled' \ handled
  <2> SUFFICES ASSUME NEW k \in DOMAIN Stream(t), Stream(t)[k][1] \in handled' \ handled
               PROVE  FALSE
    OBVIOUS
  <2>1. Stream(t)[k] # Fin
    <3>1. sent \in Seq(Frames)
      BY DEF Typing
    <3>2. 0 \notin Numbers
      BY <3>1, LenProperties DEF Numbers
    <3> QED
      BY <3>2 DEF Fin
  <2> QED
    BY <2>1, InIsSession
<1>4. ASSUME NEW q \in (1 .. sessions) \ overrun, Pending(t, q) PROVE Pending(t, q)'
  <2>1. Whole(Stream(t), sent)' /\ Ordered(Stream(t))'
    BY <1>4 DEF Pending, Whole, Ordered
  <2>2. \A k \in DOMAIN Stream(t) : Stream(t)[k][1] \notin handled'
    BY <1>3, <1>4 DEF Pending
  <2>3. \A m \in Numbers \ handled' : Session(m) = q =>
          \E k \in DOMAIN Stream(t) : Stream(t)[k] = <<m, 1>>
    BY <1>4 DEF Pending
  <2> QED
    BY <2>1, <2>2, <2>3 DEF Pending, Numbers, Session
<1>5. \A k \in DOMAIN Stream(t)' :
        IF Stream(t)'[k] = Fin THEN k = Len(Stream(t)') /\ session'[t] = 0
        ELSE Stream(t)'[k][1] \in Numbers'
  BY DEF TesterInv, Numbers
<1>6. \A q \in (1 .. sessions') \ overrun' : In(t, q)' => Pending(t, q)'
  BY <1>2, <1>4 DEF TesterInv
<1> QED
  BY <1>2, <1>5, <1>6 DEF TesterInv

-----------------------------------------------------------------------------
(* The frame at the front. *)

IsFront(n) ==
  /\ conn \in Testers /\ Stream(conn) # << >>
  /\ Stream(conn)[1] # Fin /\ n = Stream(conn)[1][1]

LEMMA Numbered ==
  ASSUME Typing
  PROVE  /\ Numbers = 1 .. Len(sent) /\ Len(sent) \in Nat
         /\ \A n \in Numbers : sent[n] \in Frames
<1>1. sent \in Seq(Frames)
  BY DEF Typing
<1> QED
  BY <1>1, LenProperties, ElementOfSeq DEF Numbers

LEMMA Front ==
  ASSUME DInv, NEW n, IsFront(n)
  PROVE  /\ n \in Numbers /\ Session(n) \in 1 .. sessions /\ In(conn, Session(n))
         /\ \A q \in 1 .. sessions : In(conn, q) => q = Session(n)
         /\ \A t \in Testers, q \in 1 .. sessions : t # conn /\ In(t, q) => q # Session(n)
         /\ Complete(n) =>
              /\ Pending(conn, Session(n)) /\ n \notin handled
              /\ \A m \in Numbers \ handled : Session(m) = Session(n) => n <= m
              /\ \A m \in handled : Session(m) = Session(n) => m < n
<1> DEFINE s == Stream(conn)
           q == Session(n)
<1>1. Typing /\ conn \in Testers /\ TesterInv(conn)
  BY DEF DInv, IsFront, StreamInv
<1>2. s \in Seq(Bytes) /\ Len(s) \in Nat /\ DOMAIN s = 1 .. Len(s) /\ 1 \in DOMAIN s
  BY <1>1, Streams, EmptySeq DEF IsFront
<1>3. n \in Numbers /\ q \in 1 .. sessions /\ In(conn, q)
  BY <1>1, <1>2, InIsSession DEF IsFront
<1>4. \A p \in 1 .. sessions : In(conn, p) => p = q
  BY <1>1, <1>3 DEF DInv, SessionsInv
<1>5. \A t \in Testers, p \in 1 .. sessions : t # conn /\ In(t, p) => p # q
  BY <1>1, <1>3 DEF DInv, SessionsInv
<1>6. ASSUME Complete(n)
      PROVE  /\ Pending(conn, q) /\ n \notin handled
             /\ \A m \in Numbers \ handled : Session(m) = q => n <= m
             /\ \A m \in handled : Session(m) = q => m < n
  <2>1. Pending(conn, q)
    BY <1>1, <1>3, <1>6 DEF TesterInv, Complete
  <2>2. n \notin handled
    BY <1>2, <2>1 DEF Pending, IsFront
  <2>3. ASSUME NEW m \in Numbers \ handled, Session(m) = q PROVE n <= m
    <3> PICK k \in DOMAIN s : s[k] = <<m, 1>>
      BY <2>1, <2>3 DEF Pending
    <3>1. m \in Nat /\ m # 0 /\ n \in Nat
      BY <1>1, <1>3, Numbered
    <3>2. CASE k = 1
      BY <3>1, <3>2 DEF IsFront
    <3>3. CASE k # 1
      <4>1. 1 < k /\ s[k] # Fin
        BY <1>2, <3>1, <3>3 DEF Fin
      <4>2. Ordered(s)
        BY <2>1 DEF Pending
      <4>3. s[1][1] <= s[k][1]
        <5> HIDE DEF s
        <5>1. s[1][1] < s[k][1] \/ s[1][1] = s[k][1]
          BY <1>2, <4>1, <4>2, OrderedAt
        <5> QED
          BY <1>2, <5>1, <1>1, Streams DEF s
      <4> QED
        BY <4>3 DEF IsFront
    <3> QED
      BY <3>2, <3>3
  <2>4. ASSUME NEW m \in handled, Session(m) = q PROVE m < n
    <3>1. m \in Numbers /\ m \in Nat /\ n \in Nat /\ m # n
      BY <1>1, <1>3, <2>2, Numbered DEF Typing
    <3>2. ~(n < m)
      <4>1. Complete(m)
        BY <1>6, <2>4 DEF Complete
      <4> QED
        BY <1>3, <2>2, <2>4, <4>1 DEF DInv, DispatchFollowsSession
    <3> QED
      BY <3>1, <3>2
  <2> QED
    BY <2>1, <2>2, <2>3, <2>4
<1> QED
  BY <1>3, <1>4, <1>5, <1>6

\* The frame at the front is handled, and dispatched if routing is active.
Handles(n) ==
  /\ handled' = handled \cup {n}
  /\ \/ dispatched' = dispatched
     \/ dispatched' = Append(dispatched, n) /\ (Complete(n) => routing_active)
  /\ sent' = sent /\ overrun' = overrun

LEMMA Dispatches ==
  ASSUME NEW d \in Seq(Nat), NEW n \in Nat, NEW e, e = Append(d, n)
  PROVE  /\ e \in Seq(Nat) /\ Len(d) \in Nat /\ DOMAIN d = 1 .. Len(d)
         /\ DOMAIN e = 1 .. Len(d) + 1 /\ e[Len(d) + 1] = n
         /\ \A i \in DOMAIN e : i # Len(d) + 1 => i \in DOMAIN d /\ e[i] = d[i]
         /\ \A i \in DOMAIN d : i \in DOMAIN e /\ e[i] = d[i] /\ i < Len(d) + 1
<1>1. /\ e \in Seq(Nat) /\ Len(d) \in Nat /\ DOMAIN d = 1 .. Len(d)
      /\ Len(e) = Len(d) + 1 /\ e[Len(d) + 1] = n
      /\ \A i \in 1 .. Len(d) : e[i] = d[i]
  BY AppendProperties, LenProperties
<1>2. DOMAIN e = 1 .. Len(d) + 1
  BY <1>1, LenProperties
<1> QED
  BY <1>1, <1>2

\* What was dispatched keeps its order, its session and the activation before it.
LEMMA HistoryKept ==
  ASSUME DInv, NEW n, IsFront(n), Handles(n)
  PROVE  /\ DispatchFollowsSession' /\ ActivatedFirst'
         /\ handled' \in SUBSET Numbers' /\ dispatched' \in Seq(Nat)
         /\ \A i \in DOMAIN dispatched' : dispatched'[i] \in handled'
         /\ Complete(n) => \A i, j \in DOMAIN dispatched' :
              i < j /\ Session(dispatched'[i]) = Session(n) =>
                Session(dispatched'[j]) = Session(n)
<1> DEFINE q == Session(n)
           d == dispatched
           e == dispatched'
<1>1. /\ Typing /\ conn \in Testers /\ n \in Numbers /\ q \in 1 .. sessions /\ In(conn, q)
      /\ d \in Seq(Nat) /\ \A i \in DOMAIN d : d[i] \in handled
  BY Front DEF DInv, Typing, IsFront
<1>2. n \in Nat /\ \A m \in Numbers : m \in Nat
  BY <1>1, Numbered
<1>3. /\ \A m \in Numbers : Session(m)' = Session(m) /\ (Complete(m)' <=> Complete(m))
      /\ Numbers' = Numbers /\ handled \subseteq Numbers /\ handled \subseteq handled'
      /\ n \in handled'
  BY <1>1 DEF Handles, Session, Complete, Numbers, Typing
<1>4. handled' \in SUBSET Numbers'
  BY <1>1, <1>3 DEF Handles
<1>5. Complete(n) => \A i, j \in DOMAIN d : i < j /\ Session(d[i]) = q => Session(d[j]) = q
  <2> SUFFICES ASSUME Complete(n)
               PROVE  \A i, j \in DOMAIN d : i < j /\ Session(d[i]) = q => Session(d[j]) = q
    OBVIOUS
  <2>1. q \in (1 .. sessions) \ overrun /\ conn # None
    BY <1>1, TestersAssumption DEF Complete, None
  <2> QED
    BY <1>1, <2>1 DEF DInv, ServingInv
<1>6. \A i \in DOMAIN d : Complete(n) /\ Session(d[i]) = q => d[i] < n
  BY <1>1, Front
<1>7. \A m \in handled', k \in Numbers' :
        k < m /\ Session(k) = Session(m) /\ Complete(m) => k \in handled'
  <2> SUFFICES ASSUME NEW m \in handled', NEW k \in Numbers,
                      k < m, Session(k) = Session(m), Complete(m), k \notin handled
               PROVE  FALSE
    BY <1>3
  <2>1. CASE m \in handled
    BY <2>1 DEF DInv, DispatchFollowsSession
  <2>2. CASE m = n
    <3>1. n <= k
      BY <2>2, Front
    <3> QED
      BY <1>2, <2>2, <3>1
  <2> QED
    BY <2>1, <2>2 DEF Handles
<1>8. ASSUME e = d
      PROVE  /\ DispatchFollowsSession' /\ ActivatedFirst'
             /\ e \in Seq(Nat) /\ \A i \in DOMAIN e : e[i] \in handled'
  <2>1. /\ \A i, k \in DOMAIN d :
             i < k /\ Session(d[i]) = Session(d[k]) /\ Complete(d[i]) =>
               /\ d[i] < d[k]
               /\ \A j \in i .. k : Session(d[j]) = Session(d[i])
        /\ \A i \in DOMAIN d : Complete(d[i]) =>
             \E m \in handled : /\ m < d[i] /\ Session(m) = Session(d[i])
                                /\ sent[m].type = "activation"
    BY DEF DInv, DispatchFollowsSession, ActivatedFirst
  <2>2. DispatchFollowsSession'
    BY <1>7, <1>8, <2>1 DEF DispatchFollowsSession, Session, Complete, Handles, Numbers
  <2>3. ActivatedFirst'
    BY <1>3, <1>8, <2>1 DEF ActivatedFirst, Session, Complete, Handles
  <2> QED
    BY <1>1, <1>3, <1>8, <2>2, <2>3
<1>9. ASSUME e = Append(d, n), Complete(n) => routing_active
      PROVE  /\ DispatchFollowsSession' /\ ActivatedFirst'
             /\ e \in Seq(Nat) /\ \A i \in DOMAIN e : e[i] \in handled'
             /\ Complete(n) => \A i, j \in DOMAIN e :
                  i < j /\ Session(e[i]) = q => Session(e[j]) = q
  <2> DEFINE l == Len(d) + 1
  <2>1. /\ e \in Seq(Nat) /\ Len(d) \in Nat /\ DOMAIN d = 1 .. Len(d)
        /\ DOMAIN e = 1 .. Len(d) + 1 /\ e[Len(d) + 1] = n
        /\ \A i \in DOMAIN e : i # l => i \in DOMAIN d /\ e[i] = d[i]
        /\ \A i \in DOMAIN d : i \in DOMAIN e /\ e[i] = d[i] /\ i < l
    BY <1>1, <1>2, <1>9, Dispatches
  <2>2. l \in Nat /\ \A i \in DOMAIN e : i \in Nat /\ i <= l
    BY <2>1
  <2>3. /\ \A i, k \in DOMAIN d :
             i < k /\ Session(d[i]) = Session(d[k]) /\ Complete(d[i]) =>
               /\ d[i] < d[k]
               /\ \A j \in i .. k : Session(d[j]) = Session(d[i])
        /\ \A i \in DOMAIN d : Complete(d[i]) =>
             \E m \in handled : /\ m < d[i] /\ Session(m) = Session(d[i])
                                /\ sent[m].type = "activation"
    BY DEF DInv, DispatchFollowsSession, ActivatedFirst
  <2> HIDE DEF d, e, l, q
  <2>4. \A i \in DOMAIN e : e[i] \in handled'
    BY <1>1, <1>3, <2>1 DEF l
  <2>5. Complete(n) => \A i, j \in DOMAIN e :
          i < j /\ Session(e[i]) = q => Session(e[j]) = q
    <3> SUFFICES ASSUME Complete(n), NEW i \in DOMAIN e, NEW j \in DOMAIN e,
                        i < j, Session(e[i]) = q
                 PROVE  Session(e[j]) = q
      OBVIOUS
    <3>1. CASE j = l
      BY <2>1, <3>1 DEF l, q
    <3>2. CASE j # l
      <4>1. i # l
        BY <2>2, <3>2
      <4> QED
        BY <1>5, <2>1, <3>2, <4>1
    <3> QED
      BY <3>1, <3>2
  <2>6. ASSUME NEW i \in DOMAIN e, NEW k \in DOMAIN e,
               i < k, Session(e[i]) = Session(e[k]), Complete(e[i])
        PROVE  /\ e[i] < e[k]
               /\ \A j \in i .. k : Session(e[j]) = Session(e[i])
    <3>1. i # l /\ i \in DOMAIN d /\ e[i] = d[i]
      BY <2>1, <2>2, <2>6
    <3>2. CASE k # l
      <4>1. k \in DOMAIN d /\ e[k] = d[k]
        BY <2>1, <3>2
      <4>2. \A j \in i .. k : j \in DOMAIN e /\ j # l
        BY <2>1, <2>2, <2>6, <3>1, <3>2, <4>1 DEF l
      <4>3. \A j \in i .. k : e[j] = d[j]
        BY <2>1, <4>2
      <4>4. d[i] < d[k] /\ \A j \in i .. k : Session(d[j]) = Session(d[i])
        BY <2>3, <2>6, <3>1, <4>1
      <4> QED
        BY <3>1, <4>1, <4>3, <4>4
    <3>3. CASE k = l
      <4>1. e[k] = n /\ Session(d[i]) = q /\ Complete(n)
        BY <2>1, <2>6, <3>1, <3>3 DEF l, q, Complete
      <4>2. d[i] < n
        BY <1>6, <3>1, <4>1
      <4>3. \A j \in i .. k : j \in DOMAIN e /\ (j = i \/ i < j)
        BY <2>1, <2>2, <2>6, <3>1 DEF l
      <4>4. \A j \in i .. k : Session(e[j]) = q
        BY <2>5, <2>6, <3>1, <4>1, <4>3
      <4> QED
        BY <3>1, <4>1, <4>2, <4>4
    <3> QED
      BY <3>2, <3>3
  <2>7. ASSUME NEW i \in DOMAIN e, Complete(e[i])
        PROVE  \E m \in handled' : /\ m < e[i] /\ Session(m) = Session(e[i])
                                   /\ sent[m].type = "activation"
    <3>1. CASE i # l
      BY <1>3, <2>1, <2>3, <2>7, <3>1
    <3>2. CASE i = l
      <4>1. e[i] = n /\ Complete(n) /\ routing_active
        BY <1>9, <2>1, <2>7, <3>2 DEF l
      <4>2. q \in (1 .. sessions) \ overrun /\ conn # None /\ In(conn, q)
        BY <1>1, <4>1, TestersAssumption DEF Complete, None, q
      <4> PICK m \in handled : Session(m) = q /\ sent[m].type = "activation"
        BY <4>1, <4>2 DEF DInv, ServingInv
      <4>3. m < n
        BY <4>1, Front DEF q
      <4> QED
        BY <1>3, <4>1, <4>3 DEF q
    <3> QED
      BY <3>1, <3>2
  <2>8. DispatchFollowsSession'
    BY <1>7, <2>6 DEF DispatchFollowsSession, Session, Complete, Handles, Numbers, e
  <2>9. ActivatedFirst'
    BY <2>7 DEF ActivatedFirst, Session, Complete, Handles, e
  <2> QED
    BY <2>1, <2>4, <2>5, <2>8, <2>9
<1> QED
  BY <1>4, <1>5, <1>8, <1>9 DEF Handles

\* The front of the stream leaves, the whole frame if nothing was dropped before.
LEMMA Left ==
  ASSUME DInv, NEW c \in Testers, c = conn, NEW n, IsFront(n), Handles(n), sessions' = sessions,
         NEW L \in Nat, Complete(n) => L = Length(sent[n]),
         Stream(c)' \in Seq(Bytes), Rest(Stream(c)', Stream(c), L),
         session'[c] = session[c], conn' = conn
  PROVE  /\ TesterInv(c)'
         /\ \A q \in 1 .. sessions : In(c, q)' => In(c, q)
<1> DEFINE s == Stream(c)
           r == Stream(c)'
           q == Session(n)
<1>1. /\ Typing /\ conn \in Testers /\ TesterInv(c) /\ n \in Numbers
      /\ q \in 1 .. sessions /\ In(c, q)
      /\ \A p \in 1 .. sessions : In(c, p) => p = q
  BY Front DEF DInv, StreamInv, IsFront
<1>2. /\ s \in Seq(Bytes) /\ Len(s) \in Nat /\ DOMAIN s = 1 .. Len(s)
      /\ r \in Seq(Bytes) /\ Len(r) \in Nat /\ DOMAIN r = 1 .. Len(r)
      /\ Rest(r, s, L)
      /\ Len(r) = Len(s) - L /\ \A k \in 1 .. Len(r) : r[k] = s[k + L]
  BY <1>1, Streams, LenProperties DEF Rest
<1>3. sent' = sent /\ overrun' = overrun /\ handled' = handled \cup {n} /\ Numbers' = Numbers
      /\ s # << >> /\ s[1] # Fin /\ n = s[1][1]
  BY DEF Handles, IsFront, Numbers
<1>4. \A k \in DOMAIN s : IF s[k] = Fin THEN k = Len(s) /\ session[c] = 0
                          ELSE s[k][1] \in Numbers
  BY <1>1 DEF TesterInv
<1>5. /\ \A p : In(c, p) <=> (session[c] = p
                    \/ \E k \in DOMAIN s : s[k] # Fin /\ Session(s[k][1]) = p)
      /\ \A p : In(c, p)' <=> (session[c] = p
                    \/ \E k \in DOMAIN r : r[k] # Fin /\ Session(r[k][1]) = p)
  <2>1. \A p : In(c, p) <=> (session[c] = p
                    \/ \E k \in DOMAIN s : s[k] # Fin /\ Session(s[k][1]) = p)
    BY DEF In
  <2>2. \A p : In(c, p)' <=> (session[c] = p
                    \/ \E k \in DOMAIN r : r[k] # Fin /\ Session(r[k][1]) = p)
    BY <1>3 DEF In, Session
  <2> QED
    BY <2>1, <2>2
<1>6. q \notin overrun => /\ Whole(s, sent) /\ Ordered(s) /\ L = Length(sent[n])
                          /\ \A k \in DOMAIN s : s[k][1] \notin handled
                          /\ \A m \in Numbers \ handled : Session(m) = q =>
                               \E k \in DOMAIN s : s[k] = <<m, 1>>
  BY <1>1 DEF TesterInv, Pending, Complete
<1>7. sent \in Seq(Frames) /\ Numbers = DOMAIN sent /\ n \in Nat \ {0}
  BY <1>1, Numbered DEF Typing, Numbers
<1>8. \A p : Pending(c, p)' <=>
        /\ Whole(r, sent) /\ Ordered(r)
        /\ \A k \in DOMAIN r : r[k][1] \notin handled'
        /\ \A m \in Numbers \ handled' : Session(m) = p => \E k \in DOMAIN r : r[k] = <<m, 1>>
  BY <1>3 DEF Pending, Session, Whole, Ordered, Numbers
<1>9. (TesterInv(c))' <=>
        /\ \A k \in DOMAIN r : IF r[k] = Fin THEN k = Len(r) /\ session[c] = 0
                               ELSE r[k][1] \in Numbers
        /\ \A p \in (1 .. sessions) \ overrun : In(c, p)' => Pending(c, p)'
  BY <1>3 DEF TesterInv
<1> HIDE DEF s, r, q
<1>10. ASSUME NEW k \in DOMAIN r PROVE k + L \in DOMAIN s /\ r[k] = s[k + L]
  BY <1>2
<1>11. \A p : In(c, p)' => In(c, p)
  BY <1>5, <1>10
<1>12. \A k \in DOMAIN r : IF r[k] = Fin THEN k = Len(r) /\ session[c] = 0
                           ELSE r[k][1] \in Numbers
  <2> TAKE k \in DOMAIN r
  <2> DEFINE p == k + L
  <2>1. p \in DOMAIN s /\ r[k] = s[p] /\ (p = Len(s) => k = Len(r))
    BY <1>2, <1>10
  <2> HIDE DEF p
  <2> QED
    BY <1>4, <2>1
<1>13. ASSUME NEW p \in (1 .. sessions) \ overrun, In(c, p)' PROVE Pending(c, p)'
  <2>1. p = q /\ q \notin overrun
    BY <1>1, <1>11, <1>13
  <2>2. /\ Whole(s, sent) /\ Ordered(s) /\ L = Length(sent[n])
        /\ \A k \in DOMAIN s : s[k][1] \notin handled
        /\ \A m \in Numbers \ handled : Session(m) = q => \E k \in DOMAIN s : s[k] = <<m, 1>>
    BY <1>6, <2>1
  <2>3. \A k \in DOMAIN s : s[k] # Fin => s[k][1] \in DOMAIN sent
    BY <1>4, <1>7
  <2>4. Whole(r, sent) /\ Ordered(r) /\ \A k \in DOMAIN r : r[k][1] # n
    <3>1. /\ s \in Seq(Bytes) /\ sent \in Seq(Frames) /\ s # << >> /\ s[1] # Fin
          /\ Whole(s, sent) /\ Ordered(s) /\ L = Length(sent[s[1][1]])
          /\ r \in Seq(Bytes) /\ Rest(r, s, L)
      BY <1>2, <1>3, <1>7, <2>2
    <3>2. Whole(r, sent) /\ Ordered(r) /\ \A k \in DOMAIN r : r[k][1] # s[1][1]
      BY ONLY <2>3, <3>1, FrameDropped
    <3> QED
      BY <1>3, <3>2
  <2>5. L \in 1 .. Len(s) /\ \A i \in 1 .. L : s[i] = <<n, i>>
    <3>1. n \in DOMAIN sent
      BY <1>1, <1>7
    <3> QED
      BY <1>2, <1>3, <1>7, <2>2, <3>1, FirstFrame
  <2>6. \A k \in DOMAIN r : r[k][1] \notin handled'
    BY <1>3, <1>10, <2>2, <2>4
  <2>7. ASSUME NEW m \in Numbers \ handled', Session(m) = q
        PROVE  \E k \in DOMAIN r : r[k] = <<m, 1>>
    <3> PICK k \in DOMAIN s : s[k] = <<m, 1>>
      BY <1>3, <2>2, <2>7
    <3>1. m # n
      BY <1>3, <2>7
    <3>2. ~(k <= L)
      <4> SUFFICES ASSUME k <= L PROVE FALSE
        OBVIOUS
      <4>1. k \in 1 .. L
        BY <1>2
      <4>2. s[k] = <<n, k>>
        BY <2>5, <4>1
      <4> QED
        BY <3>1, <4>2
    <3> DEFINE i == k - L
    <3>3. i \in 1 .. Len(r) /\ i + L = k
      BY <1>2, <3>2
    <3> HIDE DEF i
    <3> QED
      BY <1>2, <3>3
  <2> QED
    BY <1>8, <2>1, <2>4, <2>6, <2>7
<1> QED
  BY <1>9, <1>11, <1>12, <1>13

\* Bytes of the stream are dropped: its session can no longer be relied on.
LEMMA Overrun ==
  ASSUME DInv, NEW c \in Testers, c = conn, NEW q, In(c, q), q \in 1 .. sessions,
         overrun' = overrun \cup {q}, sessions' = sessions,
         sent' = sent, session'[c] = session[c], conn' = conn,
         \A k \in DOMAIN Stream(c)' :
           /\ \E j \in DOMAIN Stream(c) : Stream(c)'[k] = Stream(c)[j]
           /\ Stream(c)'[k] = Fin => k = Len(Stream(c)')
  PROVE  /\ TesterInv(c)'
         /\ \A p \in 1 .. sessions : In(c, p)' => In(c, p)
<1> DEFINE s == Stream(c)
           r == Stream(c)'
<1>1. /\ Typing /\ TesterInv(c) /\ \A p \in 1 .. sessions : In(c, p) => p = q
  BY DEF DInv, StreamInv, SessionsInv
<1>2. \A p : In(c, p)' => In(c, p)
  <2>1. \A p : In(c, p) <=> (session[c] = p
                    \/ \E k \in DOMAIN s : s[k] # Fin /\ Session(s[k][1]) = p)
    BY DEF In
  <2>2. \A p : In(c, p)' <=> (session[c] = p
                    \/ \E k \in DOMAIN r : r[k] # Fin /\ Session(r[k][1]) = p)
    BY DEF In, Session
  <2> HIDE DEF s, r
  <2>3. \A k \in DOMAIN r : \E j \in DOMAIN s : r[k] = s[j]
    BY DEF s, r
  <2> QED
    BY <2>1, <2>2, <2>3
<1>3. \A k \in DOMAIN s : IF s[k] = Fin THEN k = Len(s) /\ session[c] = 0
                          ELSE s[k][1] \in Numbers
  BY <1>1 DEF TesterInv
<1>4. \A k \in DOMAIN r : IF r[k] = Fin THEN k = Len(r) /\ session[c] = 0
                          ELSE r[k][1] \in Numbers
  BY <1>3
<1>5. \A p \in (1 .. sessions') \ overrun' : ~In(c, p)'
  BY <1>1, <1>2
<1> QED
  BY <1>2, <1>4, <1>5 DEF TesterInv, Numbers

-----------------------------------------------------------------------------
(* Each kind of step keeps the invariant. *)

Scalars ==
  /\ routing_active \in BOOLEAN /\ processing \in BOOLEAN
  /\ running \in BOOLEAN /\ ended \in BOOLEAN
  /\ rx_len \in 0 .. Width - 1 /\ (rx_len <= kRxBufSize => rx_len = Len(rx_buf))

LEMMA SessionsKept ==
  ASSUME DInv, \A t \in Testers : \A q \in 1 .. sessions' : In(t, q)' => q \in 1 .. sessions /\ In(t, q)
  PROVE  SessionsInv'
BY DEF DInv, SessionsInv

\* Nothing is handled.
LEMMA HistorySame ==
  ASSUME DInv, handled' = handled, dispatched' = dispatched, overrun \subseteq overrun',
         \A n \in Numbers : n \in Numbers' /\ sent'[n] = sent[n],
         \A m \in Numbers' \ Numbers, n \in Numbers : ~(m < n)
  PROVE  DispatchFollowsSession' /\ ActivatedFirst'
<1>1. /\ handled \subseteq Numbers /\ \A i \in DOMAIN dispatched : dispatched[i] \in handled
      /\ \A i \in DOMAIN dispatched : dispatched[i] \in Numbers
  BY DEF DInv, Typing
<1>2. \A n \in Numbers : Session(n)' = Session(n) /\ (Complete(n)' => Complete(n))
  BY DEF Session, Complete
<1>3. \A m \in Numbers', n \in handled : m < n => m \in Numbers
  BY <1>1
<1>4. /\ \A i, k \in DOMAIN dispatched :
           i < k /\ Session(dispatched[i]) = Session(dispatched[k]) /\ Complete(dispatched[i]) =>
             /\ dispatched[i] < dispatched[k]
             /\ \A j \in i .. k : Session(dispatched[j]) = Session(dispatched[i])
      /\ \A n \in handled, m \in Numbers :
           m < n /\ Session(m) = Session(n) /\ Complete(n) => m \in handled
      /\ \A i \in DOMAIN dispatched : Complete(dispatched[i]) =>
           \E m \in handled : /\ m < dispatched[i] /\ Session(m) = Session(dispatched[i])
                              /\ sent[m].type = "activation"
  BY DEF DInv, DispatchFollowsSession, ActivatedFirst
<1>5. \A i, k \in DOMAIN dispatched : i < k => \A j \in i .. k : j \in DOMAIN dispatched
  <2>1. dispatched \in Seq(Nat)
    BY DEF DInv, Typing
  <2>2. DOMAIN dispatched = 1 .. Len(dispatched) /\ Len(dispatched) \in Nat
    BY <2>1, LenProperties
  <2> QED
    BY <2>2
<1>6. \A i, k \in DOMAIN dispatched :
        i < k /\ Session(dispatched[i])' = Session(dispatched[k])' /\ Complete(dispatched[i])' =>
          /\ dispatched[i] < dispatched[k]
          /\ \A j \in i .. k : Session(dispatched[j])' = Session(dispatched[i])'
  BY <1>1, <1>2, <1>4, <1>5
<1>7. \A n \in handled, m \in Numbers' :
        m < n /\ Session(m)' = Session(n)' /\ Complete(n)' => m \in handled
  BY <1>1, <1>2, <1>3, <1>4
<1>8. \A i \in DOMAIN dispatched : Complete(dispatched[i])' =>
        \E m \in handled : /\ m < dispatched[i] /\ Session(m)' = Session(dispatched[i])'
                           /\ sent'[m].type = "activation"
  BY <1>1, <1>2, <1>4
<1>9. DispatchFollowsSession'
  BY <1>6, <1>7 DEF DispatchFollowsSession, Session, Complete
<1>10. ActivatedFirst'
  BY <1>8 DEF ActivatedFirst, Session, Complete
<1> QED
  BY <1>9, <1>10

\* The connection being served is over: what every such step does.
Finishes ==
  /\ conn \in Testers /\ conn' = None /\ rx_buf' = << >>
  /\ session' = [t \in Testers |-> IF t = conn THEN 0 ELSE session[t]]
  /\ to_server' = [t \in Testers |-> IF t = conn THEN << >> ELSE to_server[t]]
  /\ attached' = attached \ {conn}
  /\ UNCHANGED <<server, queued, sessions, sent, overrun>>
  /\ server = "DoipTcpServer" => routing_active' = FALSE

LEMMA Ends ==
  ASSUME DInv, Scalars', Finishes,
         \/ handled' = handled /\ dispatched' = dispatched
         \/ \E n : IsFront(n) /\ Handles(n)
  PROVE  DInv'
<1> PICK c \in Testers : c = conn
  BY DEF Finishes
<1>1. /\ Typing /\ Control /\ SessionsInv /\ StreamInv /\ ServingInv
      /\ conn \in Testers /\ conn # None /\ None \notin Testers
  BY TestersAssumption DEF DInv, Finishes, None
<1>2. /\ handled \subseteq handled' /\ handled' \in SUBSET Numbers' /\ dispatched' \in Seq(Nat)
      /\ \A i \in DOMAIN dispatched' : dispatched'[i] \in handled'
      /\ DispatchFollowsSession' /\ ActivatedFirst'
      /\ \A n \in handled' \ handled : \A t \in Testers, q \in 1 .. sessions :
           t # c /\ In(t, q) => Session(n) # q
  <2>1. CASE handled' = handled /\ dispatched' = dispatched
    <3>1. DispatchFollowsSession' /\ ActivatedFirst'
      BY <2>1, HistorySame DEF Finishes, Numbers
    <3> QED
      BY <1>1, <2>1, <3>1 DEF Typing, Finishes, Numbers
  <2>2. ASSUME NEW n, IsFront(n), Handles(n)
        PROVE  /\ handled' = handled \cup {n} /\ handled' \in SUBSET Numbers'
               /\ dispatched' \in Seq(Nat)
               /\ \A i \in DOMAIN dispatched' : dispatched'[i] \in handled'
               /\ DispatchFollowsSession' /\ ActivatedFirst'
               /\ \A t \in Testers, q \in 1 .. sessions : t # conn /\ In(t, q) => Session(n) # q
    BY <2>2, HistoryKept, Front DEF Handles
  <2> QED
    BY <2>1, <2>2
<1>3. Stream(c)' = << >> /\ session'[c] = 0
  BY <1>1 DEF Stream, Finishes
<1>4. TesterInv(c)' /\ \A q \in 1 .. sessions' : ~In(c, q)'
  BY <1>3, Emptied
<1>5. ASSUME NEW t \in Testers \ {c}
      PROVE  /\ TesterInv(t)'
             /\ \A q \in 1 .. sessions' : In(t, q)' => q \in 1 .. sessions /\ In(t, q)
  <2>1. TesterInv(t) /\ sessions \in Nat /\ sessions' = sessions /\ sent' = sent
        /\ overrun' = overrun /\ Numbers' = Numbers
    BY <1>1 DEF StreamInv, Typing, Finishes, Numbers
  <2>2. t # conn /\ t # conn' /\ to_server'[t] = to_server[t] /\ session'[t] = session[t]
    BY <1>1 DEF Finishes
  <2>3. Stream(t) = to_server[t] /\ Stream(t)' = to_server[t]
    BY <2>2 DEF Stream
  <2>4. \A n \in handled' \ handled : \A q \in 1 .. sessions : In(t, q) => Session(n) # q
    BY <1>2
  <2> QED
    BY <1>1, <1>2, <2>1, <2>2, <2>3, <2>4, Kept
<1>6. StreamInv'
  <2>1. \A t \in Testers : TesterInv(t)'
    BY <1>4, <1>5
  <2> QED
    BY <2>1 DEF StreamInv
<1>7. \A t \in Testers : \A q \in 1 .. sessions' : In(t, q)' => q \in 1 .. sessions /\ In(t, q) /\ t # c
  BY <1>4, <1>5
<1>8. SessionsInv'
  BY <1>7, SessionsKept
<1>9. Typing'
  <2>1. session' \in [Testers -> 0 .. sessions'] /\ to_server' \in [Testers -> Seq(Bytes)]
        /\ rx_buf' \in Seq(Bytes)
    BY <1>1 DEF Typing, Finishes
  <2>2. /\ sent' \in Seq(Frames) /\ \A n \in Numbers' : Session(n)' \in 1 .. sessions'
        /\ queued' \in SUBSET Testers /\ attached' \in SUBSET Testers /\ sessions' \in Nat
        /\ conn' \in Testers \cup {None}
    BY <1>1 DEF Typing, Finishes, Numbers, Session
  <2> QED
    BY <1>2, <2>1, <2>2 DEF Typing, Scalars
<1>10. Control'
  <2>1. /\ \A t \in Testers \ (queued' \cup {conn'}) : session'[t] = 0 /\ to_server'[t] = << >>
        /\ \A t \in queued' \cup ({conn'} \ {None}) : session'[t] = 0 =>
             to_server'[t] # << >> /\ to_server'[t][Len(to_server'[t])] = Fin
    BY <1>1 DEF Control, Typing, Finishes
  <2>2. /\ server' = "DoipTcpServer" => /\ queued' = {} /\ attached' = {conn'} \ {None}
                                        /\ routing_active' => conn' # None
                                        /\ conn' # None => rx_len' <= kRxBufSize
        /\ server' # "DoipTcpServer" => attached' = {} /\ rx_buf' = << >> /\ overrun' = {}
        /\ conn' = None => rx_buf' = << >>
        /\ conn' \notin queued'
    BY <1>1 DEF Control, Typing, Finishes
  <2> QED
    BY <2>1, <2>2 DEF Control
<1>11. ServingInv'
  <2>1. conn' = None /\ queued' = queued /\ conn \notin queued /\ queued \subseteq Testers
    BY <1>1 DEF Finishes, Control, Typing
  <2>2. ASSUME NEW t \in queued, NEW q \in 1 .. sessions', NEW n \in handled', In(t, q)'
        PROVE  Session(n)' # q
    <3>1. t \in Testers /\ t # c /\ q \in 1 .. sessions /\ In(t, q) /\ Session(n)' = Session(n)
      BY <1>7, <2>1, <2>2 DEF Finishes, Session
    <3> QED
      BY <1>1, <1>2, <3>1 DEF ServingInv
  <2> QED
    BY <2>1, <2>2 DEF ServingInv, Session
<1> QED
  BY <1>2, <1>6, <1>8, <1>9, <1>10, <1>11 DEF DInv

\* The connection goes on: only bytes of the tester being served move.
GoesOn ==
  /\ conn \in Testers /\ rx_buf' \in Seq(Bytes)
  /\ to_server' \in [Testers -> Seq(Bytes)]
  /\ \A t \in Testers \ {conn} : to_server'[t] = to_server[t]
  /\ session[conn] = 0 => /\ to_server'[conn] # << >>
                          /\ to_server'[conn][Len(to_server'[conn])] = Fin
  /\ UNCHANGED <<server, conn, queued, attached, sessions, session, sent>>
  /\ overrun \subseteq overrun'
  /\ server = "DoipTcpServer" => rx_len' <= kRxBufSize
  /\ server # "DoipTcpServer" => rx_buf' = << >> /\ overrun' = overrun

\* Routing becomes active by an activation only.
Routes(n) == routing_active' => routing_active \/ (Complete(n) => sent[n].type = "activation")

LEMMA Continues ==
  ASSUME DInv, Scalars', GoesOn, NEW c \in Testers, c = conn,
         TesterInv(c)', \A q \in 1 .. sessions : In(c, q)' => In(c, q),
         \/ handled' = handled /\ dispatched' = dispatched /\ routing_active' = routing_active
         \/ \E n : IsFront(n) /\ Handles(n) /\ Routes(n)
  PROVE  DInv'
<1>1. /\ Typing /\ Control /\ SessionsInv /\ StreamInv /\ ServingInv
      /\ conn # None /\ None \notin Testers
  BY TestersAssumption DEF DInv, GoesOn, None
<1>2. /\ handled \subseteq handled' /\ handled' \in SUBSET Numbers' /\ dispatched' \in Seq(Nat)
      /\ \A i \in DOMAIN dispatched' : dispatched'[i] \in handled'
      /\ DispatchFollowsSession' /\ ActivatedFirst'
      /\ \A n \in handled' \ handled : \A t \in Testers, q \in 1 .. sessions :
           t # c /\ In(t, q) => Session(n) # q
      /\ \A q \in (1 .. sessions) \ overrun' : In(c, q) =>
           /\ \A i, j \in DOMAIN dispatched' :
                i < j /\ Session(dispatched'[i]) = q => Session(dispatched'[j]) = q
           /\ routing_active' => \E m \in handled' : Session(m) = q /\ sent[m].type = "activation"
  <2>1. CASE handled' = handled /\ dispatched' = dispatched /\ routing_active' = routing_active
    <3>1. DispatchFollowsSession' /\ ActivatedFirst'
      BY <2>1, HistorySame DEF GoesOn, Numbers
    <3>2. \A q \in (1 .. sessions) \ overrun' : In(c, q) =>
           /\ \A i, j \in DOMAIN dispatched :
                i < j /\ Session(dispatched[i]) = q => Session(dispatched[j]) = q
           /\ routing_active => \E m \in handled : Session(m) = q /\ sent[m].type = "activation"
      BY <1>1 DEF ServingInv, GoesOn
    <3> QED
      BY <1>1, <2>1, <3>1, <3>2 DEF Typing, GoesOn, Numbers
  <2>2. ASSUME NEW n, IsFront(n), Handles(n), Routes(n)
        PROVE  /\ handled' = handled \cup {n} /\ handled' \in SUBSET Numbers'
               /\ dispatched' \in Seq(Nat)
               /\ \A i \in DOMAIN dispatched' : dispatched'[i] \in handled'
               /\ DispatchFollowsSession' /\ ActivatedFirst'
               /\ \A t \in Testers, q \in 1 .. sessions : t # conn /\ In(t, q) => Session(n) # q
               /\ \A q \in (1 .. sessions) \ overrun' : In(c, q) =>
                    /\ \A i, j \in DOMAIN dispatched' :
                         i < j /\ Session(dispatched'[i]) = q => Session(dispatched'[j]) = q
                    /\ routing_active' =>
                         \E m \in handled' : Session(m) = q /\ sent[m].type = "activation"
    <3>1. ASSUME NEW q \in (1 .. sessions) \ overrun', In(c, q)
          PROVE  /\ \A i, j \in DOMAIN dispatched' :
                      i < j /\ Session(dispatched'[i]) = q => Session(dispatched'[j]) = q
                 /\ routing_active' =>
                      \E m \in handled' : Session(m) = q /\ sent[m].type = "activation"
      <4>1. q = Session(n) /\ Complete(n) /\ q \in (1 .. sessions) \ overrun
        BY <2>2, <3>1, Front DEF Complete, GoesOn
      <4>2. \A i, j \in DOMAIN dispatched' :
              i < j /\ Session(dispatched'[i]) = q => Session(dispatched'[j]) = q
        BY <2>2, <4>1, HistoryKept
      <4>3. CASE routing_active' /\ routing_active
        <5> PICK m \in handled : Session(m) = q /\ sent[m].type = "activation"
          BY <1>1, <3>1, <4>1, <4>3 DEF ServingInv
        <5> QED
          BY <2>2, <4>2 DEF Handles
      <4>4. CASE routing_active' /\ ~routing_active
        BY <2>2, <4>1, <4>2, <4>4 DEF Handles, Routes
      <4> QED
        BY <4>2, <4>3, <4>4
    <3> QED
      BY <2>2, <3>1, HistoryKept, Front DEF Handles
  <2> QED
    BY <2>1, <2>2
<1>3. ASSUME NEW t \in Testers \ {c}
      PROVE  /\ TesterInv(t)'
             /\ \A q \in 1 .. sessions' : In(t, q)' => q \in 1 .. sessions /\ In(t, q)
  <2>1. TesterInv(t) /\ sessions \in Nat /\ sessions' = sessions /\ sent' = sent
        /\ overrun \subseteq overrun' /\ Numbers' = Numbers
    BY <1>1 DEF StreamInv, Typing, GoesOn, Numbers
  <2>2. t # conn /\ t # conn' /\ to_server'[t] = to_server[t] /\ session'[t] = session[t]
    BY <1>1 DEF GoesOn
  <2>3. Stream(t) = to_server[t] /\ Stream(t)' = to_server[t]
    BY <2>2 DEF Stream
  <2>4. \A n \in handled' \ handled : \A q \in 1 .. sessions : In(t, q) => Session(n) # q
    BY <1>2
  <2> QED
    BY <1>1, <1>2, <2>1, <2>2, <2>3, <2>4, Kept
<1>4. StreamInv'
  <2>1. \A t \in Testers : TesterInv(t)'
    BY <1>3
  <2> QED
    BY <2>1 DEF StreamInv
<1>5. \A t \in Testers : \A q \in 1 .. sessions' : In(t, q)' => q \in 1 .. sessions /\ In(t, q)
  BY <1>3 DEF GoesOn
<1>6. SessionsInv'
  BY <1>5, SessionsKept
<1>7. Typing'
  <2>1. /\ session' \in [Testers -> 0 .. sessions'] /\ to_server' \in [Testers -> Seq(Bytes)]
        /\ rx_buf' \in Seq(Bytes)
    BY <1>1 DEF Typing, GoesOn
  <2>2. /\ sent' \in Seq(Frames) /\ \A n \in Numbers' : Session(n)' \in 1 .. sessions'
        /\ queued' \in SUBSET Testers /\ attached' \in SUBSET Testers /\ sessions' \in Nat
        /\ conn' \in Testers \cup {None}
    BY <1>1 DEF Typing, GoesOn, Numbers, Session
  <2> QED
    BY <1>2, <2>1, <2>2 DEF Typing, Scalars
<1>8. Control'
  <2>1. /\ \A t \in Testers \ (queued' \cup {conn'}) : session'[t] = 0 /\ to_server'[t] = << >>
        /\ \A t \in queued' \cup ({conn'} \ {None}) : session'[t] = 0 =>
             to_server'[t] # << >> /\ to_server'[t][Len(to_server'[t])] = Fin
    BY <1>1 DEF Control, Typing, GoesOn
  <2>2. /\ server' = "DoipTcpServer" => /\ queued' = {} /\ attached' = {conn'} \ {None}
                                        /\ rx_len' <= kRxBufSize
        /\ server' # "DoipTcpServer" => attached' = {} /\ rx_buf' = << >> /\ overrun' = {}
        /\ conn' # None /\ conn' \notin queued'
    BY <1>1 DEF Control, Typing, GoesOn
  <2> QED
    BY <2>1, <2>2 DEF Control
<1>9. ServingInv'
  <2>1. conn' = conn /\ conn = c /\ queued' = queued /\ c \notin queued /\ queued \subseteq Testers
    BY <1>1 DEF GoesOn, Control, Typing
  <2>2. ASSUME NEW t \in queued, NEW q \in 1 .. sessions', NEW n \in handled', In(t, q)'
        PROVE  Session(n)' # q
    <3>1. t \in Testers /\ t # c /\ q \in 1 .. sessions /\ In(t, q) /\ Session(n)' = Session(n)
      BY <1>5, <2>1, <2>2 DEF GoesOn, Session
    <3> QED
      BY <1>1, <1>2, <3>1 DEF ServingInv
  <2>3. ASSUME NEW q \in (1 .. sessions') \ overrun', In(c, q)'
        PROVE  /\ \A i, j \in DOMAIN dispatched' :
                    i < j /\ sent'[dispatched'[i]].session = q => sent'[dispatched'[j]].session = q
               /\ routing_active' =>
                    \E m \in handled' : sent'[m].session = q /\ sent'[m].type = "activation"
    <3>1. q \in (1 .. sessions) \ overrun' /\ In(c, q) /\ sent' = sent
      BY <1>5, <2>3 DEF GoesOn
    <3> QED
      BY <1>2, <3>1 DEF Session
  <2> QED
    BY <2>1, <2>2, <2>3 DEF ServingInv, Session
<1> QED
  BY <1>2, <1>4, <1>6, <1>7, <1>8, <1>9 DEF DInv

\* The other steps handle nothing.  A tester keeps its sessions or has a new one.
Old(t) == \A q \in 1 .. sessions' : In(t, q)' => q \in 1 .. sessions /\ In(t, q)
Fresh(t) == \A q \in 1 .. sessions' : In(t, q)' => q = sessions + 1

LEMMA Unhandled ==
  ASSUME DInv, Typing', Control', StreamInv', NEW c \in Testers,
         handled' = handled, dispatched' = dispatched, overrun' = overrun,
         \A n \in Numbers : n \in Numbers' /\ sent'[n] = sent[n],
         \A m \in Numbers' \ Numbers, n \in Numbers : ~(m < n),
         \A t \in Testers : Old(t) \/ (t = c /\ Fresh(t)),
         \A t \in queued' : t \in queued \/ (t = c /\ Fresh(t)),
         \/ conn' = None
         \/ conn' = conn /\ routing_active' = routing_active /\ (conn = c => Old(c))
         \/ routing_active' = FALSE /\ conn' \in Testers
            /\ (conn' \in queued \/ (conn' = c /\ Fresh(c)))
  PROVE  DInv'
<1>1. /\ Typing /\ SessionsInv /\ ServingInv /\ sessions \in Nat
      /\ queued \subseteq Testers /\ queued' \subseteq Testers /\ handled \subseteq Numbers
      /\ \A i \in DOMAIN dispatched : dispatched[i] \in handled
      /\ \A n \in Numbers : Session(n) \in 1 .. sessions
      /\ conn \in Testers \cup {None}
  BY DEF DInv, Typing
<1>2. DispatchFollowsSession' /\ ActivatedFirst'
  BY HistorySame
<1>3. \A n \in handled : sent'[n].session = Session(n) /\ Session(n) \in 1 .. sessions
                         /\ sent'[n] = sent[n]
  BY <1>1 DEF Session
<1>4. \A t \in Testers : Old(t) \/ Fresh(t)
  OBVIOUS
<1>5. SessionsInv'
  <2> SUFFICES ASSUME NEW t \in Testers, NEW u \in Testers,
                      NEW p \in 1 .. sessions', NEW q \in 1 .. sessions', In(t, p)', In(u, q)'
               PROVE  t = u <=> p = q
    BY DEF SessionsInv
  <2>1. CASE Old(t) /\ Old(u)
    BY <1>1, <2>1 DEF SessionsInv, Old
  <2>2. CASE ~Old(t) /\ ~Old(u)
    BY <2>2 DEF Fresh
  <2>3. CASE Old(t) /\ ~Old(u)
    <3>1. t # u /\ p \in 1 .. sessions /\ q = sessions + 1
      BY <2>3 DEF Old, Fresh
    <3> QED
      BY <1>1, <3>1
  <2>4. CASE ~Old(t) /\ Old(u)
    <3>1. t # u /\ q \in 1 .. sessions /\ p = sessions + 1
      BY <2>4 DEF Old, Fresh
    <3> QED
      BY <1>1, <3>1
  <2> QED
    BY <2>1, <2>2, <2>3, <2>4
<1>6. ASSUME NEW t \in Testers, Fresh(t), NEW q \in 1 .. sessions', In(t, q)', NEW n \in handled
      PROVE  Session(n) # q
  <2>1. q = sessions + 1 /\ Session(n) \in 1 .. sessions
    BY <1>3, <1>6 DEF Fresh
  <2> QED
    BY <1>1, <2>1
<1>7. ASSUME NEW t \in queued, NEW q \in 1 .. sessions', In(t, q)', NEW n \in handled
      PROVE  Session(n) # q
  <2>1. CASE Old(t)
    BY <1>1, <1>7, <2>1 DEF Old, ServingInv
  <2>2. CASE Fresh(t)
    BY <1>1, <1>6, <1>7, <2>2
  <2> QED
    BY <1>1, <1>4, <2>1, <2>2
<1>8. ASSUME NEW t \in queued', NEW q \in 1 .. sessions', In(t, q)', NEW n \in handled
      PROVE  Session(n) # q
  BY <1>1, <1>6, <1>7, <1>8
<1>9. ASSUME NEW q \in (1 .. sessions') \ overrun', conn' # None, NEW x, x = conn', In(x, q)'
      PROVE  /\ \A i, j \in DOMAIN dispatched :
                  i < j /\ Session(dispatched[i]) = q => Session(dispatched[j]) = q
             /\ routing_active' => \E m \in handled : Session(m) = q /\ sent[m].type = "activation"
  <2>1. CASE conn' = conn /\ routing_active' = routing_active /\ (conn = c => Old(c))
    <3>1. x \in Testers /\ conn = x /\ Old(x)
      BY <1>1, <1>9, <2>1
    <3>2. q \in (1 .. sessions) \ overrun /\ In(x, q)
      BY <1>9, <3>1 DEF Old
    <3> QED
      BY <1>1, <1>9, <2>1, <3>1, <3>2 DEF ServingInv
  <2>2. CASE routing_active' = FALSE /\ conn' \in queued
    BY <1>1, <1>7, <1>9, <2>2
  <2>3. CASE routing_active' = FALSE /\ conn' \in Testers /\ conn' = c /\ Fresh(c)
    BY <1>1, <1>6, <1>9, <2>3
  <2> QED
    BY <1>9, <2>1, <2>2, <2>3
<1>10. ServingInv'
  <2>1. \A t \in queued' : \A q \in 1 .. sessions', n \in handled' :
          In(t, q)' => sent'[n].session # q
    BY <1>3, <1>8
  <2>2. ASSUME NEW q \in (1 .. sessions') \ overrun', conn' # None /\ In(conn, q)'
        PROVE  /\ \A i, j \in DOMAIN dispatched' :
                    i < j /\ sent'[dispatched'[i]].session = q => sent'[dispatched'[j]].session = q
               /\ routing_active' =>
                    \E m \in handled' : sent'[m].session = q /\ sent'[m].type = "activation"
    <3> PICK x : x = conn'
      OBVIOUS
    <3>1. In(x, q)'
      BY <2>2 DEF In, Stream
    <3>2. /\ \A i, j \in DOMAIN dispatched :
                  i < j /\ Session(dispatched[i]) = q => Session(dispatched[j]) = q
          /\ routing_active' => \E m \in handled : Session(m) = q /\ sent[m].type = "activation"
      BY <1>9, <2>2, <3>1
    <3> QED
      BY <1>1, <1>3, <3>2
  <2> QED
    BY <2>1, <2>2 DEF ServingInv, Session
<1> QED
  BY <1>2, <1>5, <1>10 DEF DInv

-----------------------------------------------------------------------------
(* The testers, accepting and stopping. *)

LEMMA AllKept ==
  ASSUME DInv, Typing', Control', NEW c \in Testers,
         UNCHANGED <<sent, handled, dispatched, overrun>>, sessions <= sessions',
         \A t \in Testers : session'[t] = session[t] /\ Stream(t)' = Stream(t),
         \/ conn' = conn /\ routing_active' = routing_active /\ queued' \subseteq queued
         \/ routing_active' = FALSE /\ conn' \in queued /\ queued' \subseteq queued
  PROVE  DInv'
<1>1. Typing /\ StreamInv /\ sessions' \in Nat /\ handled \subseteq Numbers /\ queued \subseteq Testers
  BY DEF DInv, Typing
<1>2. ASSUME NEW t \in Testers PROVE TesterInv(t)' /\ Old(t)
  <2>1. TesterInv(t) /\ handled' \ handled = {} /\ handled' \subseteq Numbers
        /\ Stream(t)' = Stream(t) /\ session'[t] = session[t]
    BY <1>1 DEF StreamInv
  <2> QED
    BY <1>1, <2>1, Kept DEF Old
<1>3. StreamInv'
  <2>1. \A t \in Testers : TesterInv(t)'
    BY <1>2
  <2> QED
    BY <2>1 DEF StreamInv
<1> QED
  BY <1>1, <1>2, <1>3, Unhandled DEF Numbers

\* Nothing that the invariant is about changes but the number of sessions.
LEMMA Idle ==
  ASSUME DInv, Scalars', sessions' \in Nat, sessions <= sessions',
         UNCHANGED <<server, conn, rx_buf, rx_len, routing_active, queued, attached, session,
                     to_server, sent, handled, dispatched, overrun>>
  PROVE  DInv'
<1>1. Typing /\ Control
  BY DEF DInv
<1>2. Typing'
  <2>1. session' \in [Testers -> 0 .. sessions'] /\ \A n \in Numbers : Session(n) \in 1 .. sessions'
    BY <1>1 DEF Typing
  <2> QED
    BY <1>1, <2>1 DEF Typing, Scalars, Numbers, Session
<1>3. Control'
  BY <1>1 DEF Control
<1>4. ASSUME NEW c \in Testers PROVE DInv'
  <2>1. \A t \in Testers : session'[t] = session[t] /\ Stream(t)' = Stream(t)
    BY DEF Stream
  <2> QED
    BY <1>2, <1>3, <2>1, AllKept
<1>5. CASE Testers = {}
  BY <1>2, <1>3, <1>5, HistorySame DEF DInv, SessionsInv, StreamInv, ServingInv, Typing, Control, Numbers, Session
<1> QED
  BY <1>4, <1>5

LEMMA AcceptStep ==
  ASSUME DInv, NEW c \in Testers, Accept(c), server = "DoipServer", server' = server
  PROVE  DInv'
<1>1. /\ Typing /\ Control /\ conn = None /\ c \in queued /\ rx_buf = << >> /\ c # None
      /\ None \notin Testers /\ sessions <= sessions
      /\ conn' = c /\ queued' = queued \ {c} /\ routing_active' = FALSE /\ rx_buf' = rx_buf
      /\ UNCHANGED <<attached, rx_len, processing, running, ended, session, to_server,
                     sessions, sent, handled, dispatched, overrun>>
  <2>1. Typing /\ Control /\ conn = None /\ c \in queued /\ None \notin Testers
    BY TestersAssumption DEF DInv, Accept, None
  <2>2. rx_buf = << >> /\ c # None /\ sessions <= sessions
    BY <2>1 DEF Control, Typing
  <2> QED
    BY <2>1, <2>2 DEF Accept, tcp_server, testers
<1>2. Typing'
  BY <1>1 DEF Typing, Numbers, Session
<1>3. Control'
  <2>1. \A t \in Testers \ (queued' \cup {conn'}) : session'[t] = 0 /\ to_server'[t] = << >>
    BY <1>1 DEF Control
  <2>2. \A t \in queued' \cup ({conn'} \ {None}) : session'[t] = 0 =>
       to_server'[t] # << >> /\ to_server'[t][Len(to_server'[t])] = Fin
    BY <1>1 DEF Control
  <2>3. attached = {} /\ server' # "DoipTcpServer"
    BY <1>1 DEF Control
  <2> QED
    BY <1>1, <2>1, <2>2, <2>3 DEF Control
<1>4. \A t \in Testers : session'[t] = session[t] /\ Stream(t)' = Stream(t)
  <2> SUFFICES ASSUME NEW t \in Testers PROVE Stream(t)' = Stream(t)
    BY <1>1
  <2>1. to_server[t] \in Seq(Bytes)
    BY <1>1 DEF Typing
  <2>2. << >> \o to_server[t] = to_server[t]
    BY <2>1, ConcatEmptySeq
  <2> QED
    BY <1>1, <2>2, TestersAssumption DEF Stream, None
<1> QED
  BY <1>1, <1>2, <1>3, <1>4, AllKept

LEMMA StopStep ==
  ASSUME DInv, Stop, server = "DoipServer", server' = server
  PROVE  DInv'
<1>1. /\ Typing /\ Control /\ StreamInv /\ conn \notin queued /\ queued \subseteq Testers
      /\ queued' = {} /\ running' = FALSE
      /\ session' = [t \in Testers |-> IF t \in queued THEN 0 ELSE session[t]]
      /\ to_server' = [t \in Testers |-> IF t \in queued THEN << >> ELSE to_server[t]]
      /\ UNCHANGED <<conn, routing_active, attached, rx_buf, rx_len, processing, ended,
                     sessions, sent, handled, dispatched, overrun>>
  BY DEF DInv, Control, Stop, Dropped, tcp_server, Typing
<1>2. Typing'
  <2>1. session' \in [Testers -> 0 .. sessions'] /\ to_server' \in [Testers -> Seq(Bytes)]
    BY <1>1 DEF Typing
  <2> QED
    BY <1>1, <2>1 DEF Typing, Numbers, Session
<1>3. Control'
  <2>1. \A t \in Testers \ (queued' \cup {conn'}) : session'[t] = 0 /\ to_server'[t] = << >>
    BY <1>1 DEF Control
  <2>2. \A t \in queued' \cup ({conn'} \ {None}) : session'[t] = 0 =>
       to_server'[t] # << >> /\ to_server'[t][Len(to_server'[t])] = Fin
    BY <1>1 DEF Control, Typing
  <2> QED
    BY <1>1, <2>1, <2>2 DEF Control
<1>4. ASSUME NEW t \in Testers PROVE TesterInv(t)' /\ Old(t)
  <2>1. CASE t \in queued
    <3>1. session'[t] = 0 /\ Stream(t)' = << >>
      BY <1>1, <2>1 DEF Stream
    <3> QED
      BY <3>1, Emptied DEF Old
  <2>2. CASE t \notin queued
    <3>1. session'[t] = session[t] /\ Stream(t)' = Stream(t) /\ TesterInv(t)
      BY <1>1, <2>2 DEF Stream, StreamInv
    <3>2. /\ sessions' \in Nat /\ sessions <= sessions' /\ overrun \subseteq overrun'
          /\ handled \subseteq handled' /\ handled' \subseteq Numbers /\ handled' \ handled = {}
      BY <1>1 DEF Typing
    <3> QED
      BY <1>1, <3>1, <3>2, Kept DEF Old
  <2> QED
    BY <2>1, <2>2
<1>5. StreamInv'
  <2>1. \A t \in Testers : TesterInv(t)'
    BY <1>4
  <2> QED
    BY <2>1 DEF StreamInv
<1>6. ASSUME NEW c \in Testers PROVE DInv'
  BY <1>1, <1>2, <1>3, <1>4, <1>5, Unhandled DEF Numbers
<1>7. CASE Testers = {}
  BY <1>1, <1>2, <1>3, <1>7, HistorySame DEF DInv, SessionsInv, StreamInv, ServingInv, Typing, Control, Numbers, Session
<1> QED
  BY <1>6, <1>7

\* A tester that is neither served nor waiting takes its turn.
LEMMA ConnectStep ==
  ASSUME DInv, NEW c \in Testers, Connect(c), server' = server
  PROVE  DInv'
<1>1. /\ Typing /\ Control /\ StreamInv /\ session[c] = 0 /\ to_server[c] = << >>
      /\ sessions' = sessions + 1 /\ sessions \in Nat /\ handled \subseteq Numbers
      /\ queued \subseteq Testers /\ None \notin Testers /\ c # None
      /\ session \in [Testers -> 0 .. sessions] /\ to_server \in [Testers -> Seq(Bytes)]
      /\ UNCHANGED <<running, ended, to_server, sent, handled, dispatched, overrun>>
  BY TestersAssumption DEF DInv, Connect, Typing, None
<1>2. c \notin queued /\ c # conn
  BY <1>1 DEF Control
<1>3. ASSUME /\ UNCHANGED <<conn, routing_active, tcp_server, queued, session>>
      PROVE  DInv'
  <2>1. Scalars' /\ sessions' \in Nat /\ sessions <= sessions'
    BY <1>1, <1>3 DEF Typing, Scalars, tcp_server
  <2> QED
    BY <1>1, <1>3, <2>1, Idle DEF tcp_server
<1>4. ASSUME /\ session' = [session EXCEPT ![c] = sessions'] /\ Typing' /\ Control'
             /\ \A t \in Testers : Stream(t)' = Stream(t)
             /\ queued' \subseteq queued \cup {c}
             /\ \/ conn' = conn /\ routing_active' = routing_active
                \/ conn' = c /\ routing_active' = FALSE
      PROVE  DInv'
  <2>1. ASSUME NEW t \in Testers \ {c} PROVE TesterInv(t)' /\ Old(t)
    <3>1. session'[t] = session[t] /\ Stream(t)' = Stream(t) /\ TesterInv(t)
      BY <1>1, <1>4 DEF StreamInv
    <3>2. /\ sessions' \in Nat /\ sessions <= sessions' /\ overrun \subseteq overrun'
          /\ handled \subseteq handled' /\ handled' \subseteq Numbers /\ handled' \ handled = {}
      BY <1>1
    <3> QED
      BY <1>1, <3>1, <3>2, Kept DEF Old
  <2>2. Stream(c)' = << >> /\ session'[c] = sessions + 1
    BY <1>1, <1>2, <1>4 DEF Stream
  <2>3. DOMAIN Stream(c)' = {}
    BY <2>2, EmptySeq
  <2>4. Fresh(c)
    BY <2>2, <2>3 DEF Fresh, In
  <2>5. TesterInv(c)'
    <3>1. ASSUME NEW q \in (1 .. sessions') \ overrun', In(c, q)' PROVE Pending(c, q)'
      <4>1. q = sessions + 1
        BY <2>4, <3>1 DEF Fresh
      <4>2. \A m \in Numbers' : sent'[m].session # q
        <5>1. \A m \in Numbers : Session(m) \in 1 .. sessions
          BY <1>1 DEF Typing
        <5> QED
          BY <1>1, <4>1, <5>1 DEF Numbers, Session
      <4> QED
        BY <2>3, <4>2 DEF Pending, Whole, Ordered, Session
    <3> QED
      BY <2>3, <3>1 DEF TesterInv
  <2>6. StreamInv'
    <3>1. \A t \in Testers : TesterInv(t)'
      BY <2>1, <2>5
    <3> QED
      BY <3>1 DEF StreamInv
  <2>7. \A t \in Testers : Old(t) \/ (t = c /\ Fresh(t))
    BY <2>1, <2>4
  <2> QED
    BY <1>1, <1>2, <1>4, <2>4, <2>6, <2>7, Unhandled DEF Numbers
<1>5. ASSUME session' = [session EXCEPT ![c] = sessions']
      PROVE  /\ session' \in [Testers -> 0 .. sessions'] /\ sessions' \in Nat
             /\ \A n \in Numbers : Session(n) \in 1 .. sessions'
             /\ \A t \in Testers \ {c} : session'[t] = session[t]
             /\ session'[c] # 0
  BY <1>1, <1>5 DEF Typing
<1>6. ASSUME /\ server = "DoipTcpServer" /\ conn = None
             /\ conn' = c /\ attached' = attached \cup {c}
             /\ rx_buf' = << >> /\ rx_len' = 0
             /\ routing_active' = FALSE
             /\ session' = [session EXCEPT ![c] = sessions']
             /\ UNCHANGED <<processing, queued>>
      PROVE  DInv'
  <2>1. Typing'
    <3>1. rx_buf' \in Seq(Bytes) /\ Len(rx_buf') = 0 /\ rx_len' \in 0 .. Width - 1
      BY <1>6, EmptySeq, LengthsAssumption
    <3> QED
      BY <1>1, <1>5, <1>6, <3>1 DEF Typing, Numbers, Session
  <2>2. Control'
    <3>0. queued = {} /\ attached = {}
      BY <1>1, <1>6 DEF Control
    <3>1. \A t \in Testers \ (queued' \cup {conn'}) : session'[t] = 0 /\ to_server'[t] = << >>
      BY <1>1, <1>5, <1>6, <3>0 DEF Control
    <3>2. \A t \in queued' \cup ({conn'} \ {None}) : session'[t] = 0 =>
         to_server'[t] # << >> /\ to_server'[t][Len(to_server'[t])] = Fin
      BY <1>1, <1>5, <1>6, <3>0
    <3>3. rx_len' <= kRxBufSize
      BY <1>6, LengthsAssumption
    <3> QED
      BY <1>1, <1>6, <3>0, <3>1, <3>2, <3>3 DEF Control
  <2>3. ASSUME NEW t \in Testers PROVE Stream(t)' = Stream(t)
    <3>1. << >> \o to_server[t] = to_server[t]
      BY <1>1, ConcatEmptySeq
    <3> QED
      BY <1>1, <1>6, <3>1 DEF Stream
  <2> QED
    BY <1>1, <1>4, <1>6, <2>1, <2>2, <2>3
<1>7. ASSUME /\ server = "DoipServer"
             /\ queued' = queued \cup {c}
             /\ session' = [session EXCEPT ![c] = sessions']
             /\ UNCHANGED <<conn, routing_active, tcp_server>>
      PROVE  DInv'
  <2>1. Typing'
    BY <1>1, <1>5, <1>7 DEF Typing, Numbers, Session, tcp_server
  <2>2. Control'
    BY <1>1, <1>2, <1>5, <1>7 DEF Control, tcp_server
  <2>3. \A t \in Testers : Stream(t)' = Stream(t)
    BY <1>1, <1>7 DEF Stream, tcp_server
  <2> QED
    BY <1>1, <1>4, <1>7, <2>1, <2>2, <2>3
<1> QED
  BY <1>3, <1>6, <1>7 DEF Connect, Accepted

\* What a tester adds comes behind everything else in its stream.
LEMMA Added ==
  ASSUME Typing, Control, NEW c \in Testers, session[c] # 0, TesterInv(c)
  PROVE  /\ c \in queued \cup ({conn} \ {None})
         /\ Len(Stream(c)) \in Nat /\ Stream(c) \in Seq(Bytes) /\ sent \in Seq(Frames)
         /\ \A k \in DOMAIN Stream(c) : Stream(c)[k] # Fin /\ Stream(c)[k][1] \in DOMAIN sent
<1>1. c # None
  BY TestersAssumption DEF None
<1>2. c \in queued \cup ({conn} \ {None})
  BY <1>1 DEF Control
<1>3. \A k \in DOMAIN Stream(c) : Stream(c)[k] # Fin /\ Stream(c)[k][1] \in Numbers
  BY DEF TesterInv
<1> QED
  BY <1>2, <1>3, Streams DEF Typing, Numbers

LEMMA CloseStep ==
  ASSUME DInv, NEW c \in Testers, Close(c), server' = server
  PROVE  DInv'
<1>1. /\ Typing /\ Control /\ StreamInv /\ session[c] # 0 /\ TesterInv(c)
      /\ session' = [session EXCEPT ![c] = 0]
      /\ to_server' = [to_server EXCEPT ![c] = Append(@, Fin)]
      /\ UNCHANGED <<conn, routing_active, attached, rx_buf, rx_len, processing, queued, running,
                     ended, sessions, sent, handled, dispatched, overrun>>
      /\ sessions \in Nat /\ handled \subseteq Numbers /\ Fin \in Bytes /\ conn \in Testers \cup {None}
      /\ session \in [Testers -> 0 .. sessions] /\ to_server \in [Testers -> Seq(Bytes)]
  BY DEF DInv, Close, Typing, tcp_server, listener, StreamInv, Fin, Bytes
<1>2. /\ Append(to_server[c], Fin) \in Seq(Bytes)
      /\ Append(to_server[c], Fin) # << >>
      /\ Append(to_server[c], Fin)[Len(Append(to_server[c], Fin))] = Fin
  BY <1>1, AppendProperties
<1>3. Typing'
  <2>1. session' \in [Testers -> 0 .. sessions'] /\ to_server' \in [Testers -> Seq(Bytes)]
    BY <1>1, <1>2
  <2> QED
    BY <1>1, <2>1 DEF Typing, Numbers, Session
<1>4. /\ \A t \in Testers \ {c} : session'[t] = session[t] /\ to_server'[t] = to_server[t]
      /\ session'[c] = 0 /\ to_server'[c] = Append(to_server[c], Fin)
  BY <1>1
<1>5. c \in queued \cup ({conn} \ {None})
  BY <1>1, Added
<1>6. Control'
  <2>1. \A t \in Testers \ (queued' \cup {conn'}) : session'[t] = 0 /\ to_server'[t] = << >>
    BY <1>1, <1>4, <1>5 DEF Control
  <2>2. \A t \in queued' \cup ({conn'} \ {None}) : session'[t] = 0 =>
       to_server'[t] # << >> /\ to_server'[t][Len(to_server'[t])] = Fin
    <3>1. queued \subseteq Testers
      BY <1>1 DEF Typing
    <3> QED
      BY <1>1, <1>2, <1>4, <3>1 DEF Control
  <2> QED
    BY <1>1, <2>1, <2>2 DEF Control
<1>7. Stream(c)' = Append(Stream(c), Fin)
  <2>1. CASE conn # c
    BY <1>1, <1>4, <2>1 DEF Stream
  <2>2. CASE conn = c
    <3>1. rx_buf \o Append(to_server[c], Fin) = Append(rx_buf \o to_server[c], Fin)
      BY <1>1, AppendIsConcat, Associative, Concatenated DEF Typing
    <3> QED
      BY <1>1, <1>4, <2>2, <3>1 DEF Stream
  <2> QED
    BY <2>1, <2>2
<1>8. TesterInv(c)' /\ Old(c)
  <2> DEFINE s == Stream(c)
             r == Stream(c)'
  <2>1. /\ s \in Seq(Bytes) /\ r \in Seq(Bytes) /\ sent \in Seq(Frames)
        /\ \A k \in DOMAIN s : s[k] # Fin /\ s[k][1] \in DOMAIN sent
    BY <1>1, <1>3, <1>7, Added, AppendProperties
  <2>2. /\ DOMAIN r = 1 .. Len(s) + 1 /\ DOMAIN s = 1 .. Len(s) /\ Len(s) \in Nat
        /\ Len(r) = Len(s) + 1 /\ r[Len(s) + 1] = Fin
        /\ \A k \in 1 .. Len(s) : r[k] = s[k]
        /\ Whole(s, sent) => Whole(r, sent)
        /\ Ordered(s) => Ordered(r)
    <3> HIDE DEF s, r
    <3>1. r = Append(s, Fin)
      BY <1>7 DEF s, r
    <3> QED
      BY <2>1, <3>1, EndAdded
  <2>3. \A p : In(c, p)' <=> (\E k \in DOMAIN r : r[k] # Fin /\ Session(r[k][1]) = p) \/ 0 = p
    BY <1>1, <1>4 DEF In, Session
  <2>4. \A p : In(c, p) <=> (\E k \in DOMAIN s : s[k] # Fin /\ Session(s[k][1]) = p) \/ session[c] = p
    BY DEF In
  <2>5. \A k \in DOMAIN r : r[k] # Fin => k \in DOMAIN s /\ r[k] = s[k]
    BY <2>2
  <2>6. Old(c)
    <3> HIDE DEF s, r
    <3>1. \A p \in 1 .. sessions : In(c, p)' => In(c, p)
      BY <2>3, <2>4, <2>5
    <3> QED
      BY <1>1, <3>1 DEF Old
  <2>7. ASSUME NEW p, Pending(c, p) PROVE Pending(c, p)'
    <3>1. Whole(r, sent) /\ Ordered(r)
      BY <2>2, <2>7 DEF Pending
    <3>2. \A k \in DOMAIN r : r[k][1] \notin handled
      <4>1. Fin[1] \notin handled
        BY <1>1, Numbered DEF Fin
      <4> QED
        BY <2>5, <2>7, <4>1 DEF Pending
    <3>3. ASSUME NEW m \in Numbers \ handled, Session(m) = p
          PROVE  \E k \in DOMAIN r : r[k] = <<m, 1>>
      <4> PICK k \in DOMAIN s : s[k] = <<m, 1>>
        BY <2>7, <3>3 DEF Pending
      <4>1. k \in DOMAIN r /\ r[k] = s[k]
        BY <2>2
      <4> QED
        BY <4>1
    <3> QED
      BY <1>1, <3>1, <3>2, <3>3 DEF Pending, Numbers, Session, Whole, Ordered
  <2>8. \A k \in DOMAIN r : IF r[k] = Fin THEN k = Len(r) ELSE r[k][1] \in Numbers
    <3>1. \A k \in DOMAIN r : k \in DOMAIN s \/ k = Len(s) + 1
      BY <2>2
    <3> QED
      BY <2>1, <2>2, <3>1 DEF Numbers
  <2>9. TesterInv(c)'
    BY <1>1, <1>4, <2>6, <2>7, <2>8 DEF TesterInv, Old, Numbers
  <2> QED
    BY <2>6, <2>9
<1>9. ASSUME NEW t \in Testers \ {c} PROVE TesterInv(t)' /\ Old(t)
  <2>1. session'[t] = session[t] /\ Stream(t)' = Stream(t) /\ TesterInv(t)
    BY <1>1, <1>4 DEF Stream, StreamInv
  <2>2. /\ sessions' \in Nat /\ sessions <= sessions' /\ overrun \subseteq overrun'
        /\ handled \subseteq handled' /\ handled' \subseteq Numbers /\ handled' \ handled = {}
    BY <1>1
  <2> QED
    BY <1>1, <2>1, <2>2, Kept DEF Old
<1>10. StreamInv' /\ \A t \in Testers : Old(t)
  <2>1. \A t \in Testers : TesterInv(t)' /\ Old(t)
    BY <1>8, <1>9
  <2> QED
    BY <2>1 DEF StreamInv
<1> QED
  BY <1>1, <1>3, <1>6, <1>10, Unhandled DEF Numbers

\* The stream of another tester does not grow when a frame is sent.
LEMMA KeptAside ==
  ASSUME Typing, NEW t \in Testers, TesterInv(t), NEW f \in Frames,
         \A q \in 1 .. sessions : In(t, q) => f.session # q,
         Stream(t)' = Stream(t), session'[t] = session[t], sent' = Append(sent, f),
         UNCHANGED <<sessions, overrun, handled>>
  PROVE  TesterInv(t)' /\ Old(t)
<1>1. /\ Numbers' = Numbers \cup {Len(sent) + 1} /\ sent'[Len(sent) + 1] = f
      /\ \A n \in Numbers : sent'[n] = sent[n] /\ sent[n] \in Frames
      /\ sessions \in Nat
  <2>1. sent \in Seq(Frames) /\ sessions \in Nat
    BY DEF Typing
  <2>2. /\ sent' \in Seq(Frames) /\ Len(sent') = Len(sent) + 1 /\ Len(sent) \in Nat
        /\ \A n \in 1 .. Len(sent) : sent'[n] = sent[n] /\ sent'[Len(sent) + 1] = f
        /\ sent'[Len(sent) + 1] = f
    BY <2>1, AppendProperties, LenProperties
  <2> QED
    BY <2>1, <2>2, LenProperties, ElementOfSeq DEF Numbers
<1>2. \A k \in DOMAIN Stream(t) : Stream(t)[k] # Fin =>
        /\ Stream(t)[k][1] \in Numbers
        /\ sent'[Stream(t)[k][1]] = sent[Stream(t)[k][1]]
  BY <1>1 DEF TesterInv
<1>3. \A q : In(t, q)' <=> In(t, q)
  BY <1>2 DEF In, Session
<1>4. Old(t)
  BY <1>3 DEF Old
<1>5. ASSUME NEW q \in (1 .. sessions) \ overrun, In(t, q), Pending(t, q) PROVE Pending(t, q)'
  <2> DEFINE s == Stream(t)
  <2>0. /\ \A k \in DOMAIN s : s[k] # Fin => sent'[s[k][1]] = sent[s[k][1]]
        /\ Whole(s, sent)
    BY <1>2, <1>5 DEF Pending
  <2> HIDE DEF s
  <2>1. Whole(s, sent')
    BY <2>0 DEF Whole
  <2>2. \A m \in Numbers' \ handled : sent'[m].session = q =>
          \E k \in DOMAIN Stream(t) : Stream(t)[k] = <<m, 1>>
    <3> SUFFICES ASSUME NEW m \in Numbers' \ handled, sent'[m].session = q
                 PROVE  \E k \in DOMAIN Stream(t) : Stream(t)[k] = <<m, 1>>
      OBVIOUS
    <3>1. m \in Numbers /\ Session(m) = q
      BY <1>1, <1>5 DEF Session
    <3> QED
      BY <1>5, <3>1 DEF Pending
  <2> QED
    <3> DEFINE r == Stream(t)'
    <3>1. r = s /\ Whole(r, sent') /\ Ordered(r)
      BY <1>5, <2>1 DEF Pending, s
    <3>2. \A k \in DOMAIN r : r[k][1] \notin handled
      BY <1>5 DEF Pending
    <3>3. \A m \in Numbers' \ handled : sent'[m].session = q => \E k \in DOMAIN r : r[k] = <<m, 1>>
      BY <2>2
    <3> QED
      BY <3>1, <3>2, <3>3 DEF Pending, Session, Whole, Ordered
<1>6. \A k \in DOMAIN Stream(t)' :
        IF Stream(t)'[k] = Fin THEN k = Len(Stream(t)') /\ session'[t] = 0
        ELSE Stream(t)'[k][1] \in Numbers'
  BY <1>1 DEF TesterInv
<1>7. \A q \in (1 .. sessions') \ overrun' : In(t, q)' => Pending(t, q)'
  BY <1>3, <1>5 DEF TesterInv
<1> QED
  BY <1>4, <1>6, <1>7 DEF TesterInv

LEMMA SendStep ==
  ASSUME DInv, NEW c \in Testers, NEW kind \in FrameKinds, Send(c, kind), server' = server
  PROVE  DInv'
<1> DEFINE f == [tester |-> c, session |-> session[c], type |-> kind.type, plen |-> kind.plen]
           b == BytesOf(Len(sent) + 1, Length(f))
<1>1. /\ Typing /\ Control /\ StreamInv /\ SessionsInv /\ session[c] # 0 /\ TesterInv(c)
      /\ UNCHANGED <<conn, routing_active, attached, rx_buf, rx_len, processing, queued, running,
                     ended, session, sessions, handled, dispatched, overrun>>
      /\ sessions \in Nat /\ handled \subseteq Numbers /\ Fin \in Bytes /\ conn \in Testers \cup {None}
      /\ session \in [Testers -> 0 .. sessions] /\ to_server \in [Testers -> Seq(Bytes)]
      /\ sent \in Seq(Frames)
  BY DEF DInv, Send, Typing, tcp_server, listener, StreamInv, Fin, Bytes
<1>2. f \in Frames /\ session[c] \in 1 .. sessions
  BY <1>1, KindsAssumption DEF Frames
<1>3. sent' = Append(sent, f)
  BY DEF Send
<1>4. /\ sent' \in Seq(Frames) /\ Len(sent') = Len(sent) + 1 /\ Len(sent) \in Nat
      /\ \A n \in 1 .. Len(sent) : sent'[n] = sent[n]
      /\ sent'[Len(sent) + 1] = f /\ Numbers = 1 .. Len(sent)
      /\ Numbers' = 1 .. Len(sent) + 1
  <2> HIDE DEF f
  <2> QED
    BY <1>1, <1>2, <1>3, AppendProperties, LenProperties DEF Numbers
<1>5. b \in Seq(Bytes) /\ Len(b) = Length(f) /\ Length(f) \in Nat
  <2> HIDE DEF f
  <2> QED
    BY <1>2, <1>4, FrameBytes, Lengths
<1>6. to_server' = [to_server EXCEPT ![c] = @ \o b]
  BY <1>4 DEF Send, Length
<1> HIDE DEF b
<1>7. /\ to_server[c] \in Seq(Bytes) /\ to_server[c] \o b \in Seq(Bytes)
      /\ Stream(c) \in Seq(Bytes) /\ rx_buf \in Seq(Bytes)
  BY <1>1, <1>5, Concatenated, Streams DEF Typing
<1>8. /\ \A t \in Testers \ {c} : to_server'[t] = to_server[t]
      /\ to_server'[c] = to_server[c] \o b
  BY <1>1, <1>6
<1>9. Stream(c)' = Stream(c) \o b /\ Stream(c) \o b \in Seq(Bytes)
  <2>1. CASE conn # c
    BY <1>1, <1>7, <1>8, <2>1 DEF Stream
  <2>2. CASE conn = c
    <3>1. rx_buf \o (to_server[c] \o b) = (rx_buf \o to_server[c]) \o b
      BY <1>5, <1>7, Associative
    <3>2. Stream(c) = rx_buf \o to_server[c] /\ Stream(c)' = rx_buf \o (to_server[c] \o b)
      BY <1>1, <1>8, <2>2 DEF Stream
    <3> QED
      BY <1>5, <1>7, <3>1, <3>2, Concatenated
  <2> QED
    BY <2>1, <2>2
<1>10. Typing'
  <2>1. to_server' \in [Testers -> Seq(Bytes)]
    BY <1>1, <1>6, <1>7
  <2>2. \A n \in Numbers' : sent'[n].session \in 1 .. sessions'
    <3>1. \A n \in Numbers : sent[n].session \in 1 .. sessions
      BY <1>1 DEF Typing, Session
    <3>2. f.session = session[c]
      OBVIOUS
    <3>3. \A n \in Numbers' : n \in Numbers \/ n = Len(sent) + 1
      BY <1>4
    <3> QED
      BY <1>1, <1>2, <1>4, <3>1, <3>2, <3>3
  <2>3. handled' \in SUBSET Numbers'
    BY <1>1, <1>4
  <2> QED
    BY <1>1, <1>4, <2>1, <2>2, <2>3 DEF Typing, Session
<1>11. Control'
  <2>0. c \in queued \cup ({conn} \ {None}) /\ queued \subseteq Testers
    BY <1>1, Added DEF Typing
  <2>1. \A t \in Testers \ (queued' \cup {conn'}) : session'[t] = 0 /\ to_server'[t] = << >>
    BY <1>1, <1>8, <2>0 DEF Control
  <2>2. \A t \in queued' \cup ({conn'} \ {None}) : session'[t] = 0 =>
       to_server'[t] # << >> /\ to_server'[t][Len(to_server'[t])] = Fin
    BY <1>1, <1>8, <2>0 DEF Control
  <2> QED
    BY <1>1, <2>1, <2>2 DEF Control
<1>12. TesterInv(c)' /\ Old(c)
  <2> DEFINE s == Stream(c)
             r == Stream(c)'
             m == Len(sent) + 1
             L == Length(f)
  <2>1. /\ s \in Seq(Bytes) /\ r \in Seq(Bytes)
        /\ \A k \in DOMAIN s : s[k] # Fin /\ s[k][1] \in DOMAIN sent
    BY <1>1, <1>7, <1>9, Added
  <2>2. /\ DOMAIN r = 1 .. Len(s) + L /\ DOMAIN s = 1 .. Len(s) /\ Len(s) \in Nat
        /\ \A k \in 1 .. Len(s) : r[k] = s[k]
        /\ \A k \in 1 .. L : r[Len(s) + k] = <<m, k>>
        /\ Whole(s, sent) => Whole(r, Append(sent, f))
        /\ Ordered(s) => Ordered(r)
    <3> HIDE DEF s, r, f
    <3>1. Follows(r, s, Len(sent) + 1, Length(f))
      BY <1>9 DEF s, r, b, Follows
    <3>2. /\ sent \in Seq(Frames) /\ f \in Frames /\ s \in Seq(Bytes) /\ r \in Seq(Bytes)
          /\ \A k \in DOMAIN s : s[k] # Fin /\ s[k][1] \in DOMAIN sent
      BY <1>1, <1>2, <2>1
    <3> QED
      BY ONLY <3>1, <3>2, FrameAdded
  <2>3. L \in Nat \ {0}
    <3> HIDE DEF f
    <3> QED
      BY <1>2, Lengths
  <2>4. \A p : In(c, p)' <=> (\E k \in DOMAIN r : r[k] # Fin /\ sent'[r[k][1]].session = p) \/ session[c] = p
    BY <1>1 DEF In, Session
  <2>5. \A p : In(c, p) <=> (\E k \in DOMAIN s : s[k] # Fin /\ Session(s[k][1]) = p) \/ session[c] = p
    BY DEF In
  <2>6. f.session = session[c]
    OBVIOUS
  <2> HIDE DEF s, r, f, L, m
  <2>7. \A k \in DOMAIN r : k \in DOMAIN s \/ \E e \in 1 .. L : k = Len(s) + e
    <3> SUFFICES ASSUME NEW k \in DOMAIN r, k \notin DOMAIN s
                 PROVE  \E e \in 1 .. L : k = Len(s) + e
      OBVIOUS
    <3>1. k - Len(s) \in 1 .. L /\ k = Len(s) + (k - Len(s))
      BY <2>2, <2>3
    <3> QED
      BY <3>1
  <2>8. ASSUME NEW k \in DOMAIN r
        PROVE  \/ k \in DOMAIN s /\ r[k] = s[k] /\ s[k][1] \in Numbers /\ s[k] # Fin
                  /\ sent'[s[k][1]].session = Session(s[k][1])
               \/ r[k][1] = m /\ sent'[m].session = session[c]
    <3>1. CASE k \in DOMAIN s
      <4>1. s[k][1] \in Numbers /\ s[k] # Fin /\ r[k] = s[k]
        BY <2>1, <2>2, <3>1 DEF Numbers
      <4> QED
        BY <1>4, <3>1, <4>1 DEF Session
    <3>2. ASSUME NEW e \in 1 .. L, k = Len(s) + e
          PROVE r[k][1] = m /\ sent'[m].session = session[c]
      BY <1>4, <2>2, <2>6, <3>2 DEF m
    <3> QED
      BY <2>7, <3>1, <3>2
  <2>9. \A p : In(c, p)' => In(c, p)
    BY <2>4, <2>5, <2>8
  <2>10. ASSUME NEW p \in (1 .. sessions) \ overrun, In(c, p) PROVE Pending(c, p)'
    <3>0. Pending(c, p)
      BY <1>1, <2>10 DEF TesterInv
    <3>1. Whole(r, sent') /\ Ordered(r)
      BY <1>3, <2>2, <3>0 DEF Pending, s
    <3>2. \A k \in DOMAIN r : r[k][1] \notin handled
      <4>1. m \notin handled
        BY <1>1, <1>4 DEF m
      <4>2. \A k \in DOMAIN s : s[k][1] \notin handled
        BY <3>0 DEF Pending, s
      <4> QED
        BY <2>8, <4>1, <4>2
    <3>3. ASSUME NEW n \in Numbers' \ handled, sent'[n].session = p
          PROVE  \E k \in DOMAIN r : r[k] = <<n, 1>>
      <4>1. CASE n = m
        <5>1. Len(s) + 1 \in DOMAIN r /\ 1 \in 1 .. L
          BY <2>2, <2>3
        <5> QED
          BY <2>2, <4>1, <5>1
      <4>2. CASE n # m
        <5>1. n \in Numbers \ handled /\ Session(n) = p
          BY <1>4, <3>3, <4>2 DEF m, Session
        <5> PICK k \in DOMAIN s : s[k] = <<n, 1>>
          BY <3>0, <5>1 DEF Pending, s
        <5>2. k \in DOMAIN r /\ r[k] = s[k]
          BY <2>2, <2>3
        <5> QED
          BY <5>2
      <4> QED
        BY <4>1, <4>2
    <3> QED
      BY <1>1, <3>1, <3>2, <3>3 DEF Pending, Session, Whole, Ordered, r
  <2>11. \A k \in DOMAIN r : r[k] # Fin /\ r[k][1] \in Numbers'
    <3>1. m \in Numbers' /\ m # 0 /\ Numbers \subseteq Numbers'
      BY <1>4 DEF m
    <3> QED
      BY <2>8, <3>1 DEF Fin
  <2>12. TesterInv(c)'
    BY <1>1, <2>9, <2>10, <2>11 DEF TesterInv, r
  <2>13. Old(c)
    BY <1>1, <2>9 DEF Old
  <2> QED
    BY <2>12, <2>13
<1>13. ASSUME NEW t \in Testers \ {c} PROVE TesterInv(t)' /\ Old(t)
  <2>1. session'[t] = session[t] /\ Stream(t)' = Stream(t) /\ TesterInv(t)
    BY <1>1, <1>8 DEF Stream, StreamInv
  <2>2. \A q \in 1 .. sessions : In(t, q) => f.session # q
    <3>1. In(c, session[c])
      BY DEF In
    <3> QED
      BY <1>1, <1>2, <3>1 DEF SessionsInv
  <2> HIDE DEF f
  <2> QED
    BY <1>1, <1>2, <1>3, <2>1, <2>2, KeptAside
<1>14. StreamInv' /\ \A t \in Testers : Old(t)
  <2>1. \A t \in Testers : TesterInv(t)' /\ Old(t)
    BY <1>12, <1>13
  <2> QED
    BY <2>1 DEF StreamInv
<1>15. /\ \A n \in Numbers : n \in Numbers' /\ sent'[n] = sent[n]
       /\ \A m \in Numbers' \ Numbers, n \in Numbers : ~(m < n)
  BY <1>4
<1> QED
  BY <1>1, <1>10, <1>11, <1>14, <1>15, Unhandled

-----------------------------------------------------------------------------
(* The two servers. *)

LEMMA SmallMod ==
  ASSUME NEW m \in Nat \ {0}, NEW x \in 0 .. m - 1
  PROVE  x % m = x
OBVIOUS

\* No more than a prefix of the stream is a frame; its end is not in the buffer.
LEMMA Served ==
  ASSUME DInv, conn # None
  PROVE  /\ conn \in Testers /\ Typing /\ Control /\ TesterInv(conn) /\ conn \notin queued
         /\ rx_buf \in Seq(Bytes) /\ to_server[conn] \in Seq(Bytes)
         /\ Stream(conn) = rx_buf \o to_server[conn] /\ Stream(conn) \in Seq(Bytes)
         /\ \A k \in DOMAIN to_server[conn] :
              to_server[conn][k] = Fin => k = Len(to_server[conn]) /\ session[conn] = 0
         /\ \A k \in DOMAIN rx_buf : rx_buf[k] # Fin
         /\ session[conn] = 0 => /\ to_server[conn] # << >>
                                 /\ to_server[conn][Len(to_server[conn])] = Fin
<1> DEFINE a == rx_buf
           b == to_server[conn]
<1>1. conn \in Testers /\ Typing /\ Control /\ TesterInv(conn) /\ conn \notin queued
  BY DEF DInv, Typing, StreamInv, Control
<1>2. /\ a \in Seq(Bytes) /\ b \in Seq(Bytes) /\ Stream(conn) = a \o b
      /\ session[conn] = 0 => b # << >> /\ b[Len(b)] = Fin
  BY <1>1 DEF Typing, Stream, Control
<1>3. \A k \in DOMAIN (a \o b) : (a \o b)[k] = Fin => k = Len(a \o b) /\ session[conn] = 0
  BY <1>1, <1>2 DEF TesterInv
<1> HIDE DEF a, b
<1>4. /\ a \o b \in Seq(Bytes) /\ Len(a \o b) = Len(a) + Len(b)
      /\ DOMAIN (a \o b) = 1 .. Len(a) + Len(b) /\ DOMAIN a = 1 .. Len(a)
      /\ DOMAIN b = 1 .. Len(b) /\ Len(a) \in Nat /\ Len(b) \in Nat
      /\ \A k \in 1 .. Len(a) : (a \o b)[k] = a[k]
      /\ \A k \in 1 .. Len(b) : (a \o b)[Len(a) + k] = b[k]
  BY <1>2, Concatenated
<1>5. ASSUME NEW k \in DOMAIN b, b[k] = Fin PROVE k = Len(b) /\ session[conn] = 0
  <2> DEFINE p == Len(a) + k
  <2>1. p \in DOMAIN (a \o b) /\ (p = Len(a \o b) => k = Len(b)) /\ (a \o b)[p] = b[k]
    BY <1>4
  <2> HIDE DEF p
  <2> QED
    BY <1>3, <1>5, <2>1
<1>6. ASSUME NEW k \in DOMAIN a, a[k] = Fin PROVE FALSE
  <2>1. k = Len(a \o b) /\ session[conn] = 0 /\ k \in 1 .. Len(a)
    <3>1. k \in DOMAIN (a \o b) /\ (a \o b)[k] = Fin
      BY <1>4, <1>6
    <3> QED
      BY <1>3, <1>4, <3>1
  <2>2. b # << >>
    BY <1>2, <2>1
  <2>3. Len(b) # 0
    BY <1>2, <2>2, EmptySeq
  <2> QED
    BY <1>4, <2>1, <2>3
<1> QED
  BY <1>1, <1>2, <1>4, <1>5, <1>6 DEF a, b

\* A step that only ends the connection.
LEMMA Closes ==
  ASSUME DInv, conn \in Testers, Scalars', conn' = None, rx_buf' = << >>,
         session' = [t \in Testers |-> IF t = conn THEN 0 ELSE session[t]],
         to_server' = [t \in Testers |-> IF t = conn THEN << >> ELSE to_server[t]],
         attached' = attached \ {conn},
         UNCHANGED <<server, queued, sessions, sent, overrun, handled, dispatched>>,
         server = "DoipTcpServer" => routing_active' = FALSE
  PROVE  DInv'
BY Ends DEF Finishes

\* What LwIP reports, and a header that is not accepted.
LEMMA TcpCloses ==
  ASSUME DInv, server = "DoipTcpServer", conn \in Testers, CloseConn, rx_buf' = << >>, rx_len' = 0,
         processing' \in BOOLEAN,
         UNCHANGED <<server, listener, sessions, sent, handled, dispatched, overrun>>
  PROVE  DInv'
<1>1. Scalars'
  <2>1. Len(rx_buf') = 0 /\ rx_len' \in 0 .. Width - 1
    BY EmptySeq, LengthsAssumption
  <2>2. running' \in BOOLEAN /\ ended' \in BOOLEAN /\ routing_active' = FALSE
    BY DEF DInv, Typing, listener, CloseConn
  <2> QED
    BY <2>1, <2>2 DEF Scalars
<1> QED
  BY <1>1, Closes DEF CloseConn, listener

\* Only the connection being served calls back.
LEMMA OnlyServed ==
  ASSUME DInv, server = "DoipTcpServer", NEW t \in attached
  PROVE  t = conn /\ conn \in Testers /\ conn # None /\ rx_len <= kRxBufSize /\ rx_len = Len(rx_buf)
<1>1. Typing /\ Control
  BY DEF DInv
<1> QED
  BY <1>1 DEF Typing, Control

\* A segment arrives: the stream is the same, or bytes of it are gone.
LEMMA RecvStep ==
  ASSUME DInv, server = "DoipTcpServer", NEW t \in Testers, NEW length \in Nat \ {0},
         RecvCallback(t, length), server' = server
  PROVE  DInv'
<1> DEFINE space == kRxBufSize - rx_len
           copy_len == IF length < space THEN length ELSE space
           a == rx_buf
           b == to_server[t]
           q == Session(FrameAt(b))
           x == a \o SubSeq(b, 1, copy_len)
           y == SubSeq(b, length + 1, Len(b))
<1>1. /\ t = conn /\ conn # None /\ rx_len <= kRxBufSize /\ rx_len = Len(a)
      /\ length \in 1 .. Len(b) /\ b[length] # Fin
      /\ rx_buf' = x /\ rx_len' = rx_len + copy_len /\ processing' = TRUE
      /\ to_server' = [to_server EXCEPT ![t] = y]
      /\ overrun' = IF copy_len < length THEN overrun \cup {q} ELSE overrun
      /\ UNCHANGED <<conn, routing_active, attached, queued, running, ended, session,
                     sessions, sent, handled, dispatched>>
  BY OnlyServed DEF RecvCallback, listener
<1>2. /\ Typing /\ Control /\ TesterInv(t) /\ a \in Seq(Bytes) /\ b \in Seq(Bytes)
      /\ Stream(t) = a \o b
      /\ \A k \in DOMAIN b : b[k] = Fin => k = Len(b) /\ session[t] = 0
      /\ session[t] = 0 => b # << >> /\ b[Len(b)] = Fin
  BY <1>1, Served
<1>3. /\ copy_len \in 0 .. Len(b) /\ copy_len <= length /\ copy_len \in Nat
      /\ Len(a) \in Nat /\ Len(b) \in Nat /\ DOMAIN b = 1 .. Len(b) /\ length <= Len(b)
      /\ rx_len + copy_len <= kRxBufSize /\ kRxBufSize \in Nat
  <2>1. Len(a) \in Nat /\ Len(b) \in Nat /\ DOMAIN b = 1 .. Len(b) /\ kRxBufSize \in Nat
    BY <1>2, LenProperties, LengthsAssumption
  <2>2. rx_len \in Nat /\ space \in Nat
    BY <1>1, <2>1
  <2> HIDE DEF a, b
  <2> QED
    BY <1>1, <2>1, <2>2
<1> HIDE DEF copy_len
<1>4. /\ SubSeq(b, 1, copy_len) \in Seq(Bytes) /\ Len(SubSeq(b, 1, copy_len)) = copy_len
      /\ \A k \in 1 .. copy_len : SubSeq(b, 1, copy_len)[k] = b[k]
  BY <1>2, <1>3, Cut
<1>5. /\ y \in Seq(Bytes) /\ Len(y) = Len(b) - length /\ DOMAIN y = 1 .. Len(b) - length
      /\ \A k \in 1 .. Len(b) - length : y[k] = b[k + length]
  <2> HIDE DEF b
  <2>1. length \in 0 .. Len(b)
    BY <1>1, <1>3
  <2> QED
    BY <1>2, <2>1, Cut
<1>6. x \in Seq(Bytes) /\ Len(x) = Len(a) + copy_len
      /\ (\A k \in 1 .. Len(a) : x[k] = a[k])
      /\ \A k \in 1 .. copy_len : x[Len(a) + k] = b[k]
  <2> DEFINE z == SubSeq(b, 1, copy_len)
  <2> HIDE DEF z
  <2>1. /\ a \o z \in Seq(Bytes) /\ Len(a \o z) = Len(a) + copy_len
        /\ (\A k \in 1 .. Len(a) : (a \o z)[k] = a[k])
        /\ \A k \in 1 .. copy_len : (a \o z)[Len(a) + k] = b[k]
    BY <1>2, <1>4, Concatenated DEF z
  <2> QED
    BY <2>1 DEF z
<1>7. Stream(t)' = x \o y /\ to_server'[t] = y
  <2>1. to_server'[t] = y
    BY <1>1, <1>2 DEF Typing
  <2> QED
    BY <1>1, <2>1 DEF Stream
<1>8. Scalars'
  <2>1. rx_len' \in 0 .. Width - 1
    BY <1>1, <1>3, LengthsAssumption
  <2>2. rx_len' = Len(rx_buf')
    BY <1>1, <1>6
  <2> QED
    BY <1>1, <1>2, <2>1, <2>2 DEF Scalars, Typing
<1>9. session[t] = 0 => y # << >> /\ y[Len(y)] = Fin
  <2> HIDE DEF a, b, x, y
  <2> SUFFICES ASSUME session[t] = 0 PROVE y # << >> /\ y[Len(y)] = Fin
    OBVIOUS
  <2>1. b[Len(b)] = Fin /\ length # Len(b)
    BY <1>1, <1>2
  <2>2. Len(y) \in Nat \ {0} /\ Len(y) \in 1 .. Len(b) - length /\ Len(y) + length = Len(b)
    <3>1. Len(b) \in Nat /\ length \in Nat /\ length <= Len(b) /\ length # Len(b)
          /\ Len(y) = Len(b) - length
      BY <1>1, <1>3, <1>5, <2>1
    <3> QED
      BY ONLY <3>1
  <2> QED
    BY <1>5, <2>1, <2>2, EmptySeq
<1>10. ASSUME copy_len < length => q \in 1 .. sessions
       PROVE  GoesOn
  <2>1. to_server' \in [Testers -> Seq(Bytes)] /\ \A u \in Testers \ {conn} : to_server'[u] = to_server[u]
    BY <1>1, <1>2, <1>5 DEF Typing
  <2>2. rx_buf' \in Seq(Bytes) /\ rx_len' <= kRxBufSize /\ overrun \subseteq overrun'
    BY <1>1, <1>3, <1>6
  <2> QED
    BY <1>1, <1>7, <1>9, <2>1, <2>2 DEF GoesOn
<1>11. CASE copy_len = length
  <2>1. Stream(t)' = Stream(t)
    BY <1>2, <1>3, <1>7, <1>11, Moved
  <2>2. overrun' = overrun
    BY <1>1, <1>3, <1>11
  <2>3. /\ sessions' \in Nat /\ sessions <= sessions' /\ overrun \subseteq overrun'
        /\ handled \subseteq handled' /\ handled' \subseteq Numbers /\ handled' \ handled = {}
        /\ session'[t] = session[t] /\ sent' = sent /\ sessions' = sessions
    BY <1>1, <1>2, <2>2 DEF Typing
  <2>4. TesterInv(t)' /\ \A p \in 1 .. sessions : In(t, p)' => In(t, p)
    BY <1>2, <2>1, <2>3, Kept
  <2> HIDE DEF a, b, x, y, q
  <2>5. GoesOn
    BY <1>3, <1>10, <1>11
  <2> QED
    BY <1>1, <1>8, <2>4, <2>5, Continues
<1>12. CASE copy_len < length
  <2> HIDE DEF x, y
  <2>1. 1 \in DOMAIN b /\ b[1] # Fin
    BY <1>1, <1>2, <1>3
  <2>2. /\ \A k \in DOMAIN Stream(t) : IF Stream(t)[k] = Fin THEN k = Len(Stream(t)) ELSE TRUE
        /\ Stream(t) \in Seq(Bytes) /\ Len(Stream(t)) = Len(a) + Len(b)
        /\ DOMAIN Stream(t) = 1 .. Len(a) + Len(b) /\ DOMAIN a = 1 .. Len(a)
        /\ \A k \in 1 .. Len(a) : Stream(t)[k] = a[k]
        /\ \A k \in 1 .. Len(b) : Stream(t)[Len(a) + k] = b[k]
    <3>1. \A k \in DOMAIN Stream(t) : IF Stream(t)[k] = Fin THEN k = Len(Stream(t)) ELSE TRUE
      BY <1>2 DEF TesterInv
    <3> HIDE DEF a, b
    <3> QED
      BY <1>2, <3>1, Concatenated
  <2>3. q \in 1 .. sessions /\ In(t, q)
    <3>1. Len(a) + 1 \in DOMAIN Stream(t) /\ Stream(t)[Len(a) + 1] = b[1]
      <4> HIDE DEF a, b
      <4>1. 1 \in 1 .. Len(b) /\ Len(a) \in Nat /\ Len(b) \in Nat
        BY <1>3, <2>1
      <4>2. Len(a) + 1 \in 1 .. Len(a) + Len(b)
        BY ONLY <4>1
      <4> QED
        BY <2>2, <4>1, <4>2
    <3> QED
      BY <1>2, <2>1, <3>1, InIsSession DEF FrameAt
  <2>4. /\ Stream(t)' \in Seq(Bytes) /\ Len(Stream(t)') = Len(x) + Len(y)
        /\ DOMAIN Stream(t)' = 1 .. Len(x) + Len(y)
        /\ \A k \in 1 .. Len(x) : Stream(t)'[k] = x[k]
        /\ \A k \in 1 .. Len(y) : Stream(t)'[Len(x) + k] = y[k]
    <3> DEFINE r == Stream(t)'
    <3> HIDE DEF r
    <3>1. x \in Seq(Bytes) /\ y \in Seq(Bytes) /\ r = x \o y
      BY <1>5, <1>6, <1>7 DEF r
    <3>2. /\ x \o y \in Seq(Bytes) /\ Len(x \o y) = Len(x) + Len(y)
          /\ DOMAIN (x \o y) = 1 .. Len(x) + Len(y)
          /\ \A k \in 1 .. Len(x) : (x \o y)[k] = x[k]
          /\ \A k \in 1 .. Len(y) : (x \o y)[Len(x) + k] = y[k]
      BY <3>1, Concatenated
    <3> QED
      BY <3>1, <3>2 DEF r
  <2> DEFINE s == Stream(t)
             r == Stream(t)'
  <2> HIDE DEF a, b, s, r
  <2>5. /\ Len(r) = Len(a) + copy_len + (Len(b) - length) /\ DOMAIN r = 1 .. Len(r)
        /\ \A k \in 1 .. Len(a) + copy_len : r[k] = s[k]
        /\ \A k \in 1 .. Len(b) - length : r[Len(a) + copy_len + k] = s[Len(a) + length + k]
    <3>1. Len(r) = Len(a) + copy_len + (Len(b) - length) /\ DOMAIN r = 1 .. Len(r)
      BY <1>5, <1>6, <2>4 DEF r
    <3>2. ASSUME NEW k \in 1 .. Len(a) + copy_len PROVE r[k] = s[k]
      <4>1. k \in 1 .. Len(x) /\ r[k] = x[k]
        BY <1>6, <2>4 DEF r
      <4>2. CASE k \in 1 .. Len(a)
        BY <1>6, <2>2, <4>1, <4>2 DEF s
      <4>3. CASE k \notin 1 .. Len(a)
        <5> DEFINE e == k - Len(a)
        <5>1. e \in 1 .. copy_len /\ e \in 1 .. Len(b) /\ k = Len(a) + e
          BY <1>3, <4>3
        <5> HIDE DEF e
        <5> QED
          BY <1>6, <2>2, <4>1, <5>1 DEF s
      <4> QED
        BY <4>2, <4>3
    <3>3. ASSUME NEW k \in 1 .. Len(b) - length
          PROVE  r[Len(a) + copy_len + k] = s[Len(a) + length + k]
      <4>1. k \in 1 .. Len(y) /\ r[Len(x) + k] = y[k] /\ y[k] = b[k + length]
        BY <1>5, <2>4 DEF r
      <4>2. k + length \in 1 .. Len(b)
        BY <1>3
      <4>3. s[Len(a) + (k + length)] = b[k + length]
        BY <2>2, <4>2 DEF s
      <4>4. Len(a) + (k + length) = Len(a) + length + k /\ Len(x) + k = Len(a) + copy_len + k
        BY <1>3, <1>6
      <4> QED
        BY <4>1, <4>3, <4>4
    <3> QED
      BY <3>1, <3>2, <3>3
  <2>6. ASSUME NEW k \in DOMAIN r
        PROVE  /\ \E j \in DOMAIN s : r[k] = s[j]
               /\ r[k] = Fin => k = Len(r)
    <3>1. CASE k \in 1 .. Len(a) + copy_len
      <4>1. k \in DOMAIN s /\ k # Len(s) /\ r[k] = s[k]
        BY <1>3, <1>12, <2>2, <2>5, <3>1 DEF s
      <4> QED
        BY <2>2, <4>1 DEF s
    <3>2. CASE k \notin 1 .. Len(a) + copy_len
      <4> DEFINE e == k - (Len(a) + copy_len)
                 j == Len(a) + length + e
      <4>1. e \in 1 .. Len(b) - length /\ k = Len(a) + copy_len + e
        BY <1>3, <2>5, <3>2
      <4>2. r[k] = s[j]
        <5> HIDE DEF e
        <5> QED
          BY <2>5, <4>1
      <4>3. j \in DOMAIN s /\ (j = Len(s) => k = Len(r))
        <5> HIDE DEF e
        <5>1. /\ e \in 1 .. Len(b) - length /\ k = Len(a) + copy_len + e /\ length \in Nat
              /\ Len(a) \in Nat /\ Len(b) \in Nat /\ copy_len \in Nat /\ length <= Len(b)
              /\ Len(r) = Len(a) + copy_len + (Len(b) - length)
              /\ Len(s) = Len(a) + Len(b) /\ DOMAIN s = 1 .. Len(a) + Len(b)
          BY <1>1, <1>3, <2>2, <2>5, <4>1 DEF s
        <5> QED
          BY ONLY <5>1
      <4> HIDE DEF e, j
      <4> QED
        BY <2>2, <4>2, <4>3 DEF s
    <3> QED
      BY <3>1, <3>2
  <2>7. TesterInv(t)' /\ \A p \in 1 .. sessions : In(t, p)' => In(t, p)
    <3>1. overrun' = overrun \cup {q}
      BY <1>1, <1>12
    <3> HIDE DEF q
    <3>2. \A k \in DOMAIN Stream(t)' :
           /\ \E j \in DOMAIN Stream(t) : Stream(t)'[k] = Stream(t)[j]
           /\ Stream(t)'[k] = Fin => k = Len(Stream(t)')
      BY <2>6 DEF s, r
    <3> QED
      BY <1>1, <2>3, <3>1, <3>2, Overrun
  <2>8. GoesOn
    BY <1>10, <2>3
  <2> QED
    BY <1>1, <1>8, <2>7, <2>8, Continues
<1> QED
  BY <1>3, <1>11, <1>12

\* A frame is handled by the bare-metal server.
LEMMA HandleStep ==
  ASSUME DInv, server = "DoipTcpServer", rx_len <= kRxBufSize, NEW frame \in ReadAs,
         NEW first \in BOOLEAN, NEW second \in BOOLEAN,
         ~Waits(frame), HandleFrame(frame, first, second), server' = server
  PROVE  DInv'
<1> DEFINE n == FrameAt(rx_buf)
           L == Length(frame)
           a == rx_buf
<1>1. Typing /\ Control /\ rx_len = Len(a) /\ rx_len >= kHeaderSize
  BY LengthsAssumption DEF DInv, Typing, ReadAs
<1>2. a # << >> /\ Len(a) \in Nat /\ 1 \in DOMAIN a /\ a \in Seq(Bytes)
  BY <1>1, LengthsAssumption, EmptySeq, LenProperties DEF Typing
<1>3. conn # None /\ conn \in Testers
  BY <1>1, <1>2 DEF Control, Typing
<1> PICK c \in Testers : c = conn
  BY <1>3
<1> DEFINE b == to_server[c]
<1>4. /\ TesterInv(c) /\ conn \notin queued /\ b \in Seq(Bytes) /\ Stream(c) = a \o b
      /\ \A k \in DOMAIN a : a[k] # Fin
      /\ session[c] = 0 => b # << >> /\ b[Len(b)] = Fin
  BY <1>3, Served
<1> HIDE DEF a, b
<1>5. /\ DOMAIN a = 1 .. Len(a) /\ Len(b) \in Nat /\ Stream(c) \in Seq(Bytes)
      /\ Len(Stream(c)) = Len(a) + Len(b) /\ DOMAIN Stream(c) = 1 .. Len(a) + Len(b)
      /\ \A k \in 1 .. Len(a) : Stream(c)[k] = a[k]
  BY <1>2, <1>4, Concatenated
<1>6. IsFront(n)
  <2>1. 1 \in DOMAIN Stream(c) /\ Stream(c)[1] = a[1] /\ a[1] # Fin
    BY <1>2, <1>4, <1>5
  <2>2. Stream(c) # << >>
    BY <2>1, EmptySeq
  <2> QED
    BY <1>3, <2>1, <2>2 DEF IsFront, FrameAt, a
<1>7. n \in Numbers /\ n \in Nat /\ sent[n] \in Frames /\ sent \in Seq(Frames)
  BY <1>1, <1>6, Front, Numbered DEF Typing
<1>8. Complete(n) => frame = sent[n]
  <2> SUFFICES ASSUME Complete(n) PROVE frame = sent[n]
    OBVIOUS
  <2>1. Whole(Stream(c), sent)
    BY <1>6, Front DEF Pending
  <2>2. /\ Stream(c) # << >> /\ Stream(c)[1] # Fin /\ n = Stream(c)[1][1] /\ n \in DOMAIN sent
    BY <1>6, <1>7 DEF IsFront, Numbers
  <2>3. \A i \in 1 .. Length(sent[n]) : Stream(c)[i] = <<n, i>>
    BY <1>5, <1>7, <2>1, <2>2, FirstFrame
  <2>4. Length(sent[n]) \in Nat
    BY <1>7, Lengths
  <2>5. \A i \in DOMAIN a : i <= Length(sent[n]) => a[i] = <<n, i>>
    <3> SUFFICES ASSUME NEW i \in DOMAIN a, i <= Length(sent[n]) PROVE a[i] = <<n, i>>
      OBVIOUS
    <3>1. i \in 1 .. Length(sent[n]) /\ i \in 1 .. Len(a)
      BY <1>5, <2>4
    <3> QED
      BY <1>5, <2>3, <3>1
  <2>6. Intact
    BY <2>5 DEF Intact, FrameLength, a
  <2> QED
    BY <1>1, <2>6, LengthsAssumption DEF ReadAs, a
<1>9. /\ L \in Nat /\ L > 0 /\ L <= rx_len /\ L \in 0 .. Len(a)
      /\ frame.type \in {"activation", "diagnostic", "foreign", "other"}
  <2>1. frame \in FrameKinds \/ frame = sent[n]
    BY DEF ReadAs
  <2>2. frame.plen \in Nat /\ frame.type \in {"activation", "diagnostic", "foreign", "other"}
    BY <1>7, <2>1, KindsAssumption DEF Frames
  <2>3. L \in Nat /\ L > 0
    BY <2>2, LengthsAssumption DEF Length
  <2>4. ~(rx_len < L)
    BY DEF Waits
  <2> HIDE DEF L
  <2> QED
    BY <1>1, <1>2, <2>2, <2>3, <2>4
<1>10. /\ handled' = handled \cup {n}
       /\ dispatched' = IF IsServed(frame) /\ first THEN Append(dispatched, n) ELSE dispatched
       /\ UNCHANGED <<processing, queued, running, ended, sessions, sent, overrun>>
  BY DEF HandleFrame, listener
<1>11. Handles(n)
  BY <1>10 DEF Handles, IsServed
<1>12. ASSUME ClosedBy(frame, first, second) PROVE DInv'
  <2>1. /\ conn' = None /\ attached' = attached \ {conn}
        /\ session' = [t \in Testers |-> IF t = conn THEN 0 ELSE session[t]]
        /\ to_server' = [t \in Testers |-> IF t = conn THEN << >> ELSE to_server[t]]
        /\ routing_active' = ActivatedBy(frame, first)
        /\ rx_len' = (Width - L) % Width
        /\ rx_buf' = << >>
    BY <1>12 DEF HandleFrame
  <2>2. routing_active' = FALSE
    BY <1>12, <2>1 DEF ClosedBy, ActivatedBy, IsServed
  <2>3. rx_len' \in 0 .. Width - 1 /\ rx_len' > kRxBufSize
    <3> HIDE DEF L
    <3>1. Width \in Nat \ {0} /\ Width - L \in 0 .. Width - 1 /\ Width - L > kRxBufSize
      BY <1>1, <1>9, LengthsAssumption
    <3> QED
      BY <2>1, <3>1, SmallMod
  <2>4. Scalars'
    <3>1. ~(rx_len' <= kRxBufSize)
      BY <2>3, LengthsAssumption
    <3>2. routing_active' \in BOOLEAN /\ processing' \in BOOLEAN /\ running' \in BOOLEAN /\ ended' \in BOOLEAN
      BY <1>1, <1>10, <2>2 DEF Typing
    <3> QED
      BY <2>3, <3>1, <3>2 DEF Scalars
  <2>5. Finishes
    BY <1>3, <1>10, <2>1, <2>2 DEF Finishes
  <2> QED
    BY <1>6, <1>11, <2>4, <2>5, Ends
<1>13. ASSUME ~ClosedBy(frame, first, second) PROVE DInv'
  <2> DEFINE x == SubSeq(a, L + 1, Len(a))
  <2>1. /\ routing_active' = (routing_active \/ ActivatedBy(frame, first))
        /\ rx_len' = rx_len - L
        /\ rx_buf' = x
        /\ UNCHANGED <<conn, attached, session, to_server>>
    BY <1>13 DEF HandleFrame, AfterFrame, testers, a
  <2> HIDE DEF L
  <2>2. x \in Seq(Bytes) /\ Len(x) = Len(a) - L
    BY <1>2, <1>9, Cut
  <2>3. Scalars'
    <3>1. rx_len' \in 0 .. Width - 1 /\ rx_len' = Len(rx_buf')
      BY <1>1, <1>2, <1>9, <2>1, <2>2, LengthsAssumption DEF Typing
    <3>2. routing_active' \in BOOLEAN
      BY <1>1, <2>1 DEF ActivatedBy, Typing
    <3> QED
      BY <1>1, <1>10, <3>1, <3>2 DEF Scalars, Typing
  <2>4. GoesOn
    <3>1. rx_len' <= kRxBufSize
      BY <1>1, <1>2, <1>9, <2>1, LengthsAssumption
    <3> QED
      BY <1>1, <1>3, <1>4, <1>10, <2>1, <2>2, <3>1 DEF GoesOn, Typing, b
  <2>5. Stream(c)' = SubSeq(a \o b, L + 1, Len(a \o b))
    <3>1. x \o b = SubSeq(a \o b, L + 1, Len(a \o b))
      BY <1>2, <1>4, <1>9, FrontLeaves
    <3>2. Stream(c)' = x \o b
      BY <2>1 DEF Stream, b
    <3> QED
      BY <3>1, <3>2
  <2>6. Stream(c)' \in Seq(Bytes) /\ Rest(Stream(c)', Stream(c), L)
    <3> DEFINE s == Stream(c)
               r == Stream(c)'
    <3>1. L \in 0 .. Len(s) /\ s \in Seq(Bytes)
      BY <1>2, <1>5, <1>9
    <3>2. r = SubSeq(s, L + 1, Len(s))
      BY <1>4, <2>5
    <3> HIDE DEF r, s
    <3>3. r \in Seq(Bytes) /\ Len(r) = Len(s) - L /\ \A k \in 1 .. Len(r) : r[k] = s[k + L]
      BY <3>1, <3>2, Cut
    <3> QED
      BY <3>3 DEF Rest, r, s
  <2>7. Complete(n) => L = Length(sent[n])
    BY <1>8 DEF L
  <2>8. TesterInv(c)' /\ \A q \in 1 .. sessions : In(c, q)' => In(c, q)
    <3>1. sessions' = sessions /\ session'[c] = session[c] /\ conn' = conn /\ L \in Nat
      BY <1>9, <1>10, <2>1
    <3> HIDE DEF n
    <3> QED
      BY <1>6, <1>11, <2>6, <2>7, <3>1, Left
  <2>9. Routes(n)
    BY <1>8, <2>1 DEF Routes, ActivatedBy
  <2> HIDE DEF n
  <2> QED
    BY <1>6, <1>11, <2>3, <2>4, <2>8, <2>9, Continues
<1> QED
  BY <1>12, <1>13

\* A frame is handled by the thread of the simulator.
LEMMA ConnectionStep ==
  ASSUME DInv, server = "DoipServer", NEW first \in BOOLEAN, NEW second \in BOOLEAN,
         HandleConnection(first, second), server' = server
  PROVE  DInv'
<1>1. Typing /\ Control /\ conn # None /\ conn \in Testers /\ rx_buf = << >> /\ overrun = {}
  BY DEF DInv, HandleConnection, Typing, Control
<1> PICK c \in Testers : c = conn
  BY <1>1
<1> DEFINE s == to_server[c]
           n == FrameAt(s)
           frame == sent[n]
           L == Length(frame)
           broken == \/ frame.type = "activation" /\ ~ActivatedBy(frame, first)
                     \/ IsServed(frame) /\ ~(first /\ second)
<1>2. /\ TesterInv(c) /\ s \in Seq(Bytes) /\ Stream(c) = rx_buf \o s
      /\ session[c] = 0 => s # << >> /\ s[Len(s)] = Fin
  BY <1>1, Served
<1>3. Stream(c) = s /\ s # << >> /\ s[1] # Fin
  <2>1. << >> \o s = s
    BY <1>2, ConcatEmptySeq
  <2> QED
    BY <1>1, <1>2, <2>1 DEF HandleConnection, FrameArrived
<1>4. IsFront(n)
  BY <1>1, <1>3 DEF IsFront, FrameAt
<1>5. n \in Numbers /\ n \in Nat /\ frame \in Frames /\ sent \in Seq(Frames) /\ Complete(n)
  <2> HIDE DEF n
  <2>1. n \in Numbers /\ Complete(n)
    BY <1>1, <1>4, Front DEF Complete
  <2> QED
    BY <1>1, <2>1, Numbered DEF Typing
<1>6. L \in 1 .. Len(s) /\ \A i \in 1 .. L : s[i] = <<n, i>>
  <2>1. Whole(s, sent)
    <3> HIDE DEF n
    <3> QED
      BY <1>3, <1>4, <1>5, Front DEF Pending
  <2>2. s[1][1] = n
    BY DEF FrameAt
  <2> QED
    BY <1>2, <1>3, <1>5, <2>1, <2>2, FirstFrame DEF Numbers
<1>7. /\ handled' = handled \cup {n}
      /\ dispatched' = IF IsServed(frame) /\ first THEN Append(dispatched, n) ELSE dispatched
      /\ routing_active' = (routing_active \/ ActivatedBy(frame, first))
      /\ UNCHANGED <<attached, rx_buf, rx_len, processing, queued, running, ended, sessions, sent, overrun>>
  BY DEF HandleConnection, tcp_server, listener
<1>8. Handles(n)
  BY <1>7 DEF Handles, IsServed
<1>9. Scalars'
  BY <1>1, <1>7 DEF Scalars, Typing, ActivatedBy
<1>10. ASSUME broken \/ ~running PROVE DInv'
  <2>1. conn' = None /\ Dropped({conn})
    BY <1>10 DEF HandleConnection
  <2>2. Finishes
    BY <1>1, <1>7, <2>1 DEF Finishes, Dropped, Control
  <2> HIDE DEF n
  <2> QED
    BY <1>4, <1>8, <1>9, <2>2, Ends
<1>11. ASSUME ~(broken \/ ~running) PROVE DInv'
  <2> DEFINE r == SubSeq(s, L + 1, Len(s))
  <2>1. /\ to_server' = [to_server EXCEPT ![c] = r]
        /\ UNCHANGED <<conn, session>>
    BY <1>11 DEF HandleConnection, FrameLength
  <2> HIDE DEF L, s
  <2>2. /\ r \in Seq(Bytes) /\ Len(r) = Len(s) - L /\ DOMAIN r = 1 .. Len(s) - L
        /\ \A k \in 1 .. Len(s) - L : r[k] = s[k + L]
    <3>1. L \in 0 .. Len(s)
      BY <1>6
    <3> QED
      BY <1>2, <3>1, Cut
  <2> HIDE DEF r
  <2>3. to_server'[c] = r /\ Stream(c)' = r
    <3>1. to_server'[c] = r /\ rx_buf' = << >>
      BY <1>1, <1>7, <2>1 DEF Typing
    <3>2. << >> \o r = r
      BY <2>2, ConcatEmptySeq
    <3> QED
      BY <3>1, <3>2 DEF Stream
  <2>4. session[c] = 0 => r # << >> /\ r[Len(r)] = Fin
    <3> SUFFICES ASSUME session[c] = 0 PROVE r # << >> /\ r[Len(r)] = Fin
      OBVIOUS
    <3>1. s[Len(s)] = Fin /\ Len(s) \in Nat /\ L \in Nat
      BY <1>2, <1>6, LenProperties
    <3>2. L # Len(s)
      <4> SUFFICES ASSUME L = Len(s) PROVE FALSE
        OBVIOUS
      <4> HIDE DEF n
      <4>1. L \in 1 .. L /\ L # 0
        BY <1>6, <3>1
      <4>2. s[L] = <<n, L>>
        BY <1>6, <4>1
      <4> QED
        BY <3>1, <4>1, <4>2 DEF Fin
    <3>3. Len(r) \in 1 .. Len(s) - L /\ Len(r) + L = Len(s)
      BY <1>6, <2>2, <3>1, <3>2
    <3> QED
      BY <2>2, <3>1, <3>3, EmptySeq
  <2>5. GoesOn
    <3>1. to_server' \in [Testers -> Seq(Bytes)] /\ \A t \in Testers \ {conn} : to_server'[t] = to_server[t]
      BY <1>1, <2>1, <2>2 DEF Typing
    <3>2. rx_buf' = << >> /\ rx_buf' \in Seq(Bytes)
      BY <1>1, <1>7 DEF Typing
    <3> QED
      BY <1>1, <1>7, <2>1, <2>3, <2>4, <3>1, <3>2 DEF GoesOn
  <2>6. Rest(Stream(c)', Stream(c), L) /\ Stream(c)' \in Seq(Bytes)
    <3>1. Rest(r, s, L)
      BY <2>2 DEF Rest
    <3> QED
      BY <1>3, <2>2, <2>3, <3>1 DEF s
  <2>7. TesterInv(c)' /\ \A q \in 1 .. sessions : In(c, q)' => In(c, q)
    <3>1. sessions' = sessions /\ session'[c] = session[c] /\ conn' = conn /\ L \in Nat
          /\ L = Length(sent[n])
      BY <1>6, <1>7, <2>1 DEF L
    <3> HIDE DEF n
    <3> QED
      BY <1>4, <1>8, <2>6, <3>1, Left
  <2>8. Routes(n)
    BY <1>7 DEF Routes, ActivatedBy
  <2> HIDE DEF n
  <2> QED
    BY <1>4, <1>8, <1>9, <2>5, <2>7, <2>8, Continues
<1> QED
  BY <1>10, <1>11

LEMMA ReadFailsStep ==
  ASSUME DInv, server = "DoipServer", ReadFails, server' = server
  PROVE  DInv'
<1>1. Typing /\ Control /\ conn \in Testers /\ rx_buf = << >> /\ attached = {}
  BY DEF DInv, ReadFails, Typing, Control
<1>2. Scalars'
  BY <1>1 DEF Scalars, Typing, ReadFails, tcp_server, listener
<1> QED
  BY <1>1, <1>2, Closes DEF ReadFails, Dropped, tcp_server, listener

-----------------------------------------------------------------------------
(* The invariant. *)

LEMMA Initially == Init => DInv
<1> SUFFICES ASSUME Init PROVE DInv
  OBVIOUS
<1>1. /\ Numbers = {} /\ DOMAIN dispatched = {} /\ << >> \in Seq(Bytes) /\ << >> \in Seq(Frames)
      /\ << >> \in Seq(Nat) /\ Len(rx_buf) = 0
  BY EmptySeq DEF Init, Numbers
<1>2. Typing
  <2>1. rx_len \in 0 .. Width - 1 /\ rx_len = Len(rx_buf)
    BY <1>1, LengthsAssumption DEF Init
  <2>2. to_server \in [Testers -> Seq(Bytes)] /\ session \in [Testers -> 0 .. sessions]
    BY <1>1 DEF Init
  <2> QED
    BY <1>1, <2>1, <2>2 DEF Init, Typing
<1>3. Control
  BY TestersAssumption, LengthsAssumption DEF Init, Control, None
<1>4. 1 .. sessions = {}
  BY DEF Init
<1>5. ASSUME NEW t \in Testers PROVE TesterInv(t)
  <2>1. Stream(t) = << >>
    BY TestersAssumption DEF Init, Stream, None
  <2>2. DOMAIN Stream(t) = {}
    BY <2>1, EmptySeq
  <2> QED
    BY <1>4, <2>2 DEF TesterInv
<1>6. SessionsInv /\ ServingInv
  BY <1>4 DEF SessionsInv, ServingInv
<1>7. DispatchFollowsSession /\ ActivatedFirst
  BY <1>1 DEF DispatchFollowsSession, ActivatedFirst, Init
<1> QED
  BY <1>2, <1>3, <1>5, <1>6, <1>7 DEF DInv, StreamInv

LEMMA Inductive == DInv /\ [Next]_vars => DInv'
<1> SUFFICES ASSUME DInv, [Next]_vars PROVE DInv'
  OBVIOUS
<1>1. CASE UNCHANGED vars
  <2>1. Scalars' /\ sessions' \in Nat /\ sessions <= sessions'
    BY <1>1 DEF DInv, Typing, Scalars, vars, tcp_server, listener
  <2> QED
    BY <1>1, <2>1, Idle DEF vars, tcp_server, listener, testers
<1>2. ASSUME NEW t \in Testers, TesterStep(t), server' = server PROVE DInv'
  BY <1>2, ConnectStep, SendStep, CloseStep DEF TesterStep
<1>3. ASSUME NEW t \in Testers, ReceiveEnd(t) \/ ConnectionBreaks(t),
             server = "DoipTcpServer", server' = server
      PROVE  DInv'
  <2>1. t \in attached /\ CloseConn /\ rx_buf' = << >> /\ rx_len' = 0
        /\ UNCHANGED <<processing, listener, sessions, sent, handled, dispatched, overrun>>
    BY <1>3 DEF ReceiveEnd, ConnectionBreaks
  <2>2. conn \in Testers /\ processing' \in BOOLEAN
    BY <1>3, <2>1, OnlyServed DEF DInv, Typing
  <2> QED
    BY <1>3, <2>1, <2>2, TcpCloses
<1>4. ASSUME NEW t \in Testers, NEW i \in 1 .. MaxOutstanding, RecvCallback(t, i),
             server = "DoipTcpServer", server' = server
      PROVE  DInv'
  <2>1. i \in Nat \ {0}
    BY LengthsAssumption
  <2> QED
    BY <1>4, <2>1, RecvStep
<1>5. ASSUME ProcessFrames, server = "DoipTcpServer", server' = server PROVE DInv'
  <2>1. CASE /\ processing' = FALSE
             /\ UNCHANGED <<conn, routing_active, attached, rx_buf, rx_len, testers,
                            listener, sessions, sent, handled, dispatched, overrun>>
    <3>0. Scalars /\ sessions \in Nat
      BY DEF DInv, Typing, Scalars
    <3>1. sessions' \in Nat /\ sessions <= sessions' /\ sessions' = sessions
      BY <2>1, <3>0
    <3>2. Scalars'
      BY <2>1, <3>0 DEF Scalars, listener
    <3> QED
      BY <1>5, <2>1, <3>1, <3>2, Idle DEF listener, testers
  <2>2. ASSUME NEW frame \in ReadAs, CloseConn, rx_buf' = << >>, rx_len' = 0, processing' = FALSE,
               UNCHANGED <<listener, sessions, sent, handled, dispatched, overrun>>
        PROVE  DInv'
    <3>1. rx_len >= kHeaderSize
      BY <2>2, LengthsAssumption DEF ReadAs, DInv, Typing
    <3>2. Len(rx_buf) # 0
      BY <1>5, <3>1, LengthsAssumption DEF DInv, Typing, ProcessFrames
    <3>3. conn \in Testers
      BY <3>2, EmptySeq DEF DInv, Control, Typing
    <3> QED
      BY <1>5, <2>2, <3>3, TcpCloses
  <2>3. ASSUME NEW frame \in ReadAs, NEW first \in MayWrite, NEW second \in MayWrite,
               ~Waits(frame), HandleFrame(frame, first, second)
        PROVE  DInv'
    <3>1. first \in BOOLEAN /\ second \in BOOLEAN /\ rx_len <= kRxBufSize
      BY <1>5, MayWriteAssumption DEF ProcessFrames
    <3> QED
      BY <1>5, <2>3, <3>1, HandleStep
  <2> QED
    BY <1>5, <2>1, <2>2, <2>3 DEF ProcessFrames
<1>6. ASSUME ListenerThread, server = "DoipServer", server' = server PROVE DInv'
  <2>1. ASSUME NEW first \in MayWrite, NEW second \in MayWrite, HandleConnection(first, second)
        PROVE  DInv'
    <3>1. first \in BOOLEAN /\ second \in BOOLEAN
      BY MayWriteAssumption
    <3> QED
      BY <1>6, <2>1, <3>1, ConnectionStep
  <2>2. CASE ThreadEnds
    <3>1. Scalars' /\ sessions' \in Nat /\ sessions <= sessions'
      BY <2>2 DEF DInv, Typing, Scalars, ThreadEnds, tcp_server
    <3> QED
      BY <1>6, <2>2, <3>1, Idle DEF ThreadEnds, tcp_server, testers
  <2> QED
    BY <1>6, <2>1, <2>2, AcceptStep, ReadFailsStep DEF ListenerThread
<1>7. CASE Next
  BY <1>2, <1>3, <1>4, <1>5, <1>6, <1>7, StopStep
  DEF Next, TcpServerStep, TcpServerRuns, DoipServerStep
<1> QED
  BY <1>1, <1>7

LEMMA Invariant == Spec => []DInv
BY Initially, Inductive, PTL DEF Spec

\* The types, and that the bytes in the buffer are as many as rx_len says, until the
\* subtraction in ProcessFrames has taken the length below zero.
THEOREM TypeCorrect == Spec => []DoipTypeOK
<1>1. DInv => DoipTypeOK
  BY DEF DInv, Typing, DoipTypeOK
<1> QED
  BY <1>1, Invariant, PTL

\* However many testers connect, in whatever order: RecvCallback is called for the one
\* that conn_pcb_ names only, and routing_active does not outlive its connection.
THEOREM OneConnectionHolds == Spec => []OneConnection
<1>1. DInv => OneConnection
  BY DEF DInv, Control, OneConnection
<1> QED
  BY <1>1, Invariant, PTL

\* ProcessFrames and HandleConnection put together again what was sent, however it was
\* cut: as long as the buffer has held it, the requests of a session are dispatched in
\* order, each once, none passed over, those of two sessions not in turns.
THEOREM DispatchFollows == Spec => []DispatchFollowsSession
<1>1. DInv => DispatchFollowsSession
  BY DEF DInv
<1> QED
  BY <1>1, Invariant, PTL

\* No request is dispatched on the activation of an earlier session: AcceptCallback
\* and CloseConn reset routing_active_, and each HandleConnection begins without it.
THEOREM ActivationFirst == Spec => []ActivatedFirst
<1>1. DInv => ActivatedFirst
  BY DEF DInv
<1> QED
  BY <1>1, Invariant, PTL

-----------------------------------------------------------------------------
(* The receive length. *)

\* No answer is refused, and no tester sends an activation that is too short.
NothingCloses ==
  /\ MayWrite \subseteq {TRUE}
  /\ \A kind \in FrameKinds : kind.type = "activation" => kind.plen >= MinActivation

LongEnough == \A n \in Numbers : sent[n].type = "activation" => sent[n].plen >= MinActivation

LEMMA StepLongEnough ==
  ASSUME NothingCloses, DInv, LongEnough, [Next]_vars
  PROVE  LongEnough'
<1>1. CASE sent' = sent
  BY <1>1 DEF LongEnough, Numbers
<1>2. ASSUME NEW t \in Testers, NEW kind \in FrameKinds, Send(t, kind)
      PROVE  LongEnough'
  <2> DEFINE frame == [tester |-> t, session |-> session[t], type |-> kind.type,
                       plen |-> kind.plen]
  <2>1. sent' = Append(sent, frame) /\ sent \in Seq(Frames)
    BY <1>2 DEF Send, DInv, Typing
  <2>2. frame.type = "activation" => frame.plen >= MinActivation
    BY DEF NothingCloses
  <2> HIDE DEF frame
  <2>3. /\ Len(sent) \in Nat /\ DOMAIN sent = 1 .. Len(sent)
        /\ DOMAIN sent' = 1 .. Len(sent) + 1
        /\ \A n \in 1 .. Len(sent) : sent'[n] = sent[n]
        /\ sent'[Len(sent) + 1] = frame
    BY <2>1
  <2>4. \A n \in DOMAIN sent' : n \in DOMAIN sent \/ n = Len(sent) + 1
    BY <2>3
  <2> QED
    BY <2>2, <2>3, <2>4 DEF LongEnough, Numbers
<1> QED
  BY <1>1, <1>2
     DEF Next, vars, TesterStep, Connect, Close, TcpServerStep, TcpServerRuns, ReceiveEnd,
         ConnectionBreaks, RecvCallback, ProcessFrames, HandleFrame, DoipServerStep,
         ListenerThread, Accept, HandleConnection, ReadFails, ThreadEnds, Stop

LEMMA StepRxLen ==
  ASSUME NothingCloses, DInv, DInv', LongEnough, RxLenWithinBuffer, [Next]_vars
  PROVE  RxLenWithinBuffer'
<1>1. kRxBufSize \in Nat \ {0} /\ kHeaderSize \in Nat \ {0}
  BY LengthsAssumption
<1>2. rx_len \in Nat /\ rx_len = Len(rx_buf)
  BY LengthsAssumption DEF DInv, Typing, RxLenWithinBuffer
<1>3. CASE rx_len' = rx_len \/ rx_len' = 0
  BY <1>1, <1>2, <1>3 DEF RxLenWithinBuffer
<1>4. ASSUME NEW t \in Testers, NEW length \in 1 .. MaxOutstanding, RecvCallback(t, length)
      PROVE  RxLenWithinBuffer'
  <2>1. length \in Nat
    BY LengthsAssumption
  <2> QED
    BY <1>1, <1>2, <1>4, <2>1 DEF RecvCallback, RxLenWithinBuffer
<1>5. ASSUME NEW frame \in ReadAs, NEW first \in MayWrite, NEW second \in MayWrite,
             ~Waits(frame), HandleFrame(frame, first, second)
      PROVE  RxLenWithinBuffer'
  <2>0. FrameAt(rx_buf) \in Numbers
    <3>1. handled' = handled \cup {FrameAt(rx_buf)} /\ sent' = sent
      BY <1>5 DEF HandleFrame
    <3>2. handled' \subseteq Numbers'
      BY DEF DInv, Typing
    <3>3. Numbers' = Numbers
      BY <3>1 DEF Numbers
    <3> QED
      BY <3>1, <3>2, <3>3
  <2>1. frame = sent[FrameAt(rx_buf)] \/ frame \in FrameKinds
    BY <1>1, <1>2 DEF ReadAs
  <2>4. frame.plen \in Nat /\ (frame.type = "activation" => frame.plen >= MinActivation)
    <3>1. CASE frame = sent[FrameAt(rx_buf)]
      <4>1. frame \in Frames
        BY <2>0, <3>1, ElementOfSeq DEF DInv, Typing, Numbers
      <4> QED
        BY <2>0, <3>1, <4>1 DEF LongEnough, Frames
    <3>2. CASE frame \in FrameKinds
      <4>1. frame \in [type : {"activation", "diagnostic", "foreign", "other"}, plen : Nat]
        BY <3>2, KindsAssumption
      <4> QED
        BY <3>2, <4>1 DEF NothingCloses
    <3> QED
      BY <2>1, <3>1, <3>2
  <2>2. first = TRUE /\ second = TRUE
    BY DEF NothingCloses
  <2>3. ~ClosedBy(frame, first, second)
    BY <2>2, <2>4 DEF ClosedBy
  <2>5. Length(frame) \in Nat
    BY <1>1, <2>4 DEF Length
  <2>6. rx_len' = rx_len - Length(frame) /\ rx_len >= Length(frame)
    BY <1>2, <1>5, <2>3, <2>5 DEF HandleFrame, Waits
  <2> QED
    BY <1>1, <1>2, <2>5, <2>6 DEF RxLenWithinBuffer
<1> QED
  BY <1>3, <1>4, <1>5
     DEF Next, vars, tcp_server, TesterStep, Send, Connect, Close, TcpServerStep,
         TcpServerRuns, ReceiveEnd, ConnectionBreaks, ProcessFrames, DoipServerStep,
         ListenerThread, Accept, HandleConnection, ReadFails, ThreadEnds, Stop

\* Where nothing closes a connection while a frame of it is handled, rx_len_ never
\* exceeds the buffer, whatever is cut, dropped or read as a frame: a refused answer and an
\* activation that is too short are the only ways to drive it below zero.
THEOREM RxLenSound ==
  ASSUME NothingCloses
  PROVE  Spec => []RxLenWithinBuffer
<1>1. Init => LongEnough /\ RxLenWithinBuffer
  BY LengthsAssumption DEF Init, LongEnough, Numbers, RxLenWithinBuffer
<1>2. DInv /\ LongEnough /\ [Next]_vars => LongEnough'
  BY StepLongEnough
<1>3. DInv /\ DInv' /\ LongEnough /\ RxLenWithinBuffer /\ [Next]_vars => RxLenWithinBuffer'
  BY StepRxLen
<1> QED
  BY <1>1, <1>2, <1>3, Invariant, PTL DEF Spec
=============================================================================
