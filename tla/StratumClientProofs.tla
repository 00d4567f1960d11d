------------------------ MODULE StratumClientProofs ------------------------
(***************************************************************************)
(* The stratum client, proved for any number of submitters, pools,         *)
(* sessions and shares, any room in the connection and any size of the tag *)
(* table.                                                                  *)
(*                                                                         *)
(* Sessions says in which order a session's announcements are met.  Books  *)
(* says that a share is in one place at a time and that the counters are   *)
(* the sizes of what was submitted and answered.  FirstSession says what   *)
(* the ids and the tag table are worth until ids start again.              *)
(***************************************************************************)
EXTENDS StratumClient, FiniteSetTheorems, WellFoundedInduction, TLAPS

-----------------------------------------------------------------------------
(* Types: TypeOK by parts, and that a thread in send has a line to send.   *)

SocketTypes == /\ running \in BOOLEAN /\ alive \in BOOLEAN
               /\ fd \in 0 .. MaxSessions /\ sessions \in 0 .. MaxSessions
               /\ pool_idx \in 0 .. NPools - 1
LineTypes == /\ outq \in Seq(Lines) /\ c2s \in Seq(Lines) /\ s2c \in Seq(Lines)
             /\ todo \in [Threads -> Seq(Lines)]
TagTypes == /\ next_id \in Nat \ {0} /\ pending_tags \in Seq((Nat \ {0}) \X Tags)
            /\ shares \in Seq([id : Nat \ {0}, tag : Tags]) /\ Len(shares) <= MaxShares
            /\ told \subseteq (1 .. MaxShares) \X (Tags \cup {0})
JobTypes == /\ share_target \in 0 .. MaxSessions
            /\ job \in [session : 0 .. MaxSessions, target : 0 .. MaxSessions]
StatTypes == stats \in [{"submitted", "reconnects"} \cup Verdicts -> Nat]
ThreadTypes == /\ npc \in {"connect", "dialing", "handshake", "flush", "poll", "done"}
               /\ main \in {"run", "closing", "joining", "stopped"}
               /\ writing \in Threads \cup {None}
               /\ writing /= None => todo[writing] /= <<>>
PoolTypes == pool \in [authed : BOOLEAN, announced : 0 .. Len(Announcements),
                       holds : SUBSET (1 .. MaxShares)]

Types == /\ SocketTypes /\ LineTypes /\ TagTypes /\ JobTypes /\ StatTypes /\ ThreadTypes
         /\ PoolTypes

-----------------------------------------------------------------------------
(* Sessions.                                                               *)

\* Without a session there is no socket.
NoSession == npc \in {"connect", "dialing", "done"} => fd = 0

\* A job is announced after a target, which the client has seen or will see first.
TargetFirst ==
    \A i \in DOMAIN s2c : s2c[i].kind = "notify" =>
        share_target = sessions \/ \E j \in 1 .. i - 1 : s2c[j].kind = "target"
TargetSent ==
    pool.announced >= 1 =>
        share_target = sessions \/ \E j \in DOMAIN s2c : s2c[j].kind = "target"

Sessions == NoSession /\ TargetFirst /\ TargetSent /\ JobHasItsPoolsTarget

-----------------------------------------------------------------------------
(* Books.                                                                  *)

\* The shares that the lines of s are about, and that each is there once.
Shared(s) == {s[i].share : i \in DOMAIN s} \ {0}
Once(s) == \A i, j \in DOMAIN s : s[i].share = s[j].share /\ s[i].share /= 0 => i = j

\* A submit or a result is about a share.
Named(s) == \A i \in DOMAIN s : s[i].kind \in {"submit"} \cup Verdicts => s[i].share /= 0

Sound(s) == Once(s) /\ Named(s)

Hands(t) == Shared(todo[t])
Queued == Shared(outq)
Sent == Shared(c2s)
Back == Shared(s2c)
Held == pool.holds
Answered == {p[1] : p \in told}

LinesSound == /\ \A t \in Threads : Sound(todo[t])
              /\ Sound(outq) /\ Sound(c2s) /\ Sound(s2c)

\* What is anywhere was submitted.
Submitted ==
    /\ \A t \in Threads : Hands(t) \subseteq DOMAIN shares
    /\ Queued \subseteq DOMAIN shares /\ Sent \subseteq DOMAIN shares /\ Back \subseteq DOMAIN shares
    /\ Held \subseteq DOMAIN shares /\ Answered \subseteq DOMAIN shares

\* And it is in one place.
HandsApart ==
    \A t \in Threads :
        /\ \A u \in Threads \ {t} : Hands(t) \cap Hands(u) = {}
        /\ Hands(t) \cap Queued = {} /\ Hands(t) \cap Sent = {} /\ Hands(t) \cap Back = {}
        /\ Hands(t) \cap Held = {} /\ Hands(t) \cap Answered = {}
RestApart ==
    /\ Queued \cap Sent = {} /\ Queued \cap Back = {} /\ Queued \cap Held = {}
    /\ Queued \cap Answered = {} /\ Sent \cap Back = {} /\ Sent \cap Held = {}
    /\ Sent \cap Answered = {} /\ Back \cap Held = {} /\ Back \cap Answered = {}
    /\ Held \cap Answered = {}
ToldOnce == \A p, q \in told : p[1] = q[1] => p = q

Counts == /\ stats.submitted = Len(shares)
          /\ stats.accepted + stats.stale + stats.rejected = Cardinality(Answered)

Books == LinesSound /\ Submitted /\ HandsApart /\ RestApart /\ ToldOnce /\ Counts

-----------------------------------------------------------------------------
(* The first session.                                                      *)

\* Shares are submitted for a job, and the first job comes after the handshake.
JobFirst == /\ job.session = 0 => shares = <<>>
            /\ sessions = 0 => job.session = 0 /\ npc \in {"connect", "dialing", "done"}
            /\ sessions = 1 /\ npc = "handshake" => job.session = 0

IdsInStep == /\ sessions = 1 /\ npc /= "handshake" => next_id = Len(shares) + 3
             /\ sessions <= 1 => \A n \in DOMAIN shares : shares[n].id = n + 2

\* The tag table has true tags, and while it never overflowed all that are awaited.
TagsTrue ==
    /\ Len(pending_tags) <= Len(shares)
    /\ sessions <= 1 =>
         \A i \in DOMAIN pending_tags : \E n \in DOMAIN shares :
             pending_tags[i] = <<shares[n].id, shares[n].tag>>
TagsThere ==
    sessions <= 1 /\ Len(shares) <= MaxPending =>
        \A n \in DOMAIN shares \ Answered : \E i \in DOMAIN pending_tags :
            pending_tags[i][1] = shares[n].id

FirstSession == JobFirst /\ IdsInStep /\ TagsTrue /\ TagsThere /\ FirstSessionTags

Inv == Types /\ Sessions /\ Books /\ FirstSession

-----------------------------------------------------------------------------
(* Sequences.                                                              *)

LEMMA TailFacts ==
    ASSUME NEW S, NEW s \in Seq(S), s /= <<>>
    PROVE  /\ Tail(s) \in Seq(S) /\ Head(s) \in S /\ Head(s) = s[1] /\ 1 \in DOMAIN s
           /\ \A i \in DOMAIN Tail(s) : i + 1 \in DOMAIN s /\ Tail(s)[i] = s[i + 1]
           /\ \A i \in DOMAIN s : i /= 1 => i - 1 \in DOMAIN Tail(s) /\ Tail(s)[i - 1] = s[i]
<1>1. Len(s) \in Nat \ {0} /\ DOMAIN s = 1 .. Len(s)
  OBVIOUS
<1>2. Tail(s) \in Seq(S) /\ Len(Tail(s)) = Len(s) - 1 /\ DOMAIN Tail(s) = 1 .. Len(s) - 1
  BY <1>1
<1>3. \A i \in 1 .. Len(s) - 1 : Tail(s)[i] = s[i + 1]
  BY <1>1
<1>4. Head(s) = s[1] /\ 1 \in DOMAIN s
  BY <1>1
<1>5. Head(s) \in S
  BY <1>4
<1>6. ASSUME NEW i \in DOMAIN s, i /= 1
      PROVE  i - 1 \in DOMAIN Tail(s) /\ Tail(s)[i - 1] = s[i]
  <2>1. i - 1 \in 1 .. Len(s) - 1 /\ (i - 1) + 1 = i
    BY <1>1, <1>6
  <2> QED BY <1>2, <1>3, <2>1
<1> QED BY <1>1, <1>2, <1>3, <1>4, <1>5, <1>6

LEMMA AppendFacts ==
    ASSUME NEW S, NEW s \in Seq(S), NEW e \in S
    PROVE  /\ Append(s, e) \in Seq(S) /\ Len(Append(s, e)) = Len(s) + 1
           /\ DOMAIN Append(s, e) = DOMAIN s \cup {Len(s) + 1} /\ Len(s) + 1 \notin DOMAIN s
           /\ \A i \in DOMAIN s : Append(s, e)[i] = s[i]
           /\ Append(s, e)[Len(s) + 1] = e
OBVIOUS

(* What a line more or a line less does to the shares of a sequence.       *)
LEMMA SharedAppend ==
    ASSUME NEW s \in Seq(Lines), NEW e \in Lines, Sound(s), e.share \notin Shared(s),
           e.kind \in {"submit"} \cup Verdicts => e.share /= 0
    PROVE  Sound(Append(s, e)) /\ Shared(Append(s, e)) = Shared(s) \cup ({e.share} \ {0})
<1> DEFINE r == Append(s, e)
           n == Len(s) + 1
<1>1. /\ DOMAIN r = DOMAIN s \cup {n} /\ n \notin DOMAIN s
      /\ \A i \in DOMAIN s : r[i] = s[i]
      /\ r[n] = e
  BY AppendFacts
<1> HIDE DEF r, n
<1>2. \A i \in DOMAIN s : s[i].share = e.share => e.share = 0
  BY DEF Shared
<1>3. Once(r)
  BY <1>1, <1>2 DEF Once, Sound
<1>4. Named(r)
  BY <1>1 DEF Named, Sound
<1>5. Shared(r) = Shared(s) \cup ({e.share} \ {0})
  BY <1>1 DEF Shared
<1> QED BY <1>3, <1>4, <1>5 DEF Sound, r

LEMMA SharedTail ==
    ASSUME NEW s \in Seq(Lines), s /= <<>>, Sound(s)
    PROVE  /\ Sound(Tail(s)) /\ Shared(Tail(s)) = Shared(s) \ {Head(s).share}
           /\ Head(s).share \in Shared(s) \cup {0}
           /\ Head(s).kind \in {"submit"} \cup Verdicts => Head(s).share \in Shared(s)
<1> DEFINE r == Tail(s)
           h == Head(s)
<1>1. /\ h = s[1] /\ 1 \in DOMAIN s
      /\ \A i \in DOMAIN r : i + 1 \in DOMAIN s /\ r[i] = s[i + 1]
      /\ \A i \in DOMAIN s : i /= 1 => i - 1 \in DOMAIN r /\ r[i - 1] = s[i]
      /\ DOMAIN r \subseteq Nat /\ DOMAIN s \subseteq Nat /\ 0 \notin DOMAIN r
  <2>1. Tail(s) \in Seq(Lines)
    BY TailFacts
  <2>2. DOMAIN s \subseteq Nat /\ DOMAIN Tail(s) \subseteq Nat /\ 0 \notin DOMAIN Tail(s)
    BY <2>1
  <2> QED BY <2>2, TailFacts
<1> HIDE DEF r, h
<1>2. Once(r)
  <2> SUFFICES ASSUME NEW i \in DOMAIN r, NEW j \in DOMAIN r, r[i].share = r[j].share, r[i].share /= 0
               PROVE  i = j
    BY DEF Once
  <2>1. i + 1 = j + 1
    BY <1>1 DEF Once, Sound
  <2> QED BY <1>1, <2>1
<1>3. Named(r)
  BY <1>1 DEF Named, Sound
<1>4. Shared(r) \subseteq Shared(s)
  BY <1>1 DEF Shared
<1>5. h.share \notin Shared(r)
  <2> SUFFICES ASSUME NEW i \in DOMAIN r, r[i].share = h.share, h.share /= 0
               PROVE  FALSE
    BY DEF Shared
  <2>1. i + 1 = 1
    BY <1>1 DEF Once, Sound
  <2> QED BY <1>1, <2>1
<1>6. ASSUME NEW n \in Shared(s), n /= h.share
      PROVE  n \in Shared(r)
  <2>1. PICK i \in DOMAIN s : s[i].share = n
    BY DEF Shared
  <2>2. i - 1 \in DOMAIN r /\ r[i - 1].share = n
    BY <1>1, <1>6, <2>1
  <2> QED BY <2>2 DEF Shared
<1>7. h.share \in Shared(s) \cup {0} /\ (h.kind \in {"submit"} \cup Verdicts => h.share \in Shared(s))
  BY <1>1 DEF Shared, Named, Sound
<1> QED BY <1>2, <1>3, <1>4, <1>5, <1>6, <1>7 DEF Sound, r, h

-----------------------------------------------------------------------------
(* Types are kept.                                                         *)

LEMMA TypesGiveTypeOK == Types => TypeOK
BY DEF Types, SocketTypes, LineTypes, TagTypes, JobTypes, StatTypes, ThreadTypes, PoolTypes, TypeOK

LEMMA LineIsLine ==
    ASSUME NEW n \in 0 .. MaxShares
    PROVE  /\ \A k \in {"subscribe", "authorize", "submit", "pong", "target", "notify", "ping"}
                       \cup Verdicts : Line(k, n) \in Lines /\ Line(k, n).kind = k
                                       /\ Line(k, n).share = n
           /\ Submit(n) \in Lines /\ Submit(n).kind = "submit" /\ Submit(n).share = n
BY DEF Line, Lines, Submit

LEMMA ThreadFacts ==
    /\ Net \in Threads /\ None \notin Threads /\ \A t \in Submitters : t \in Threads /\ t /= Net
    /\ MaxShares \in Nat /\ MaxSessions \in Nat /\ MaxPending \in Nat
    /\ 0 \in 0 .. MaxShares /\ 0 \in 0 .. MaxSessions
BY ClientAssumption DEF Threads

LEMMA TypesInit == Init => Types
<1> SUFFICES ASSUME Init PROVE Types
  OBVIOUS
<1> USE ThreadFacts DEF Init
<1>1. SocketTypes
  <2>1. NPools \in Nat \ {0}
    BY ClientAssumption
  <2>2. 0 \in 0 .. NPools - 1
    BY <2>1
  <2> QED BY <2>2 DEF SocketTypes
<1>2. LineTypes /\ TagTypes /\ JobTypes /\ ThreadTypes
  BY DEF LineTypes, TagTypes, JobTypes, ThreadTypes
<1>3. StatTypes
  BY DEF StatTypes, Verdicts
<1>4. PoolTypes
  BY DEF PoolTypes, NewPool, Announcements
<1> QED BY <1>1, <1>2, <1>3, <1>4 DEF Types

(* A thread in send keeps its line while the others go on.                 *)
LEMMA SendTypes ==
    ASSUME Types, NEW t \in Threads, SendBegin(t) \/ SendEnd(t)
    PROVE  Types'
<1> USE DEF Types
<1>0. /\ todo \in [Threads -> Seq(Lines)] /\ todo[t] \in Seq(Lines)
      /\ outq \in Seq(Lines) /\ c2s \in Seq(Lines) /\ None \notin Threads
  BY ThreadFacts DEF LineTypes
<1>1. SocketTypes' /\ TagTypes' /\ JobTypes' /\ StatTypes' /\ PoolTypes'
  BY DEF SendBegin, SendEnd, SocketTypes, TagTypes, JobTypes, StatTypes, PoolTypes, net, history,
         client
<1>2. todo[t] /= <<>>
  BY <1>0 DEF SendBegin, SendEnd, ThreadTypes
<1>3. Tail(todo[t]) \in Seq(Lines) /\ Head(todo[t]) \in Lines
  BY <1>0, <1>2, TailFacts
<1>4. Append(outq, Head(todo[t])) \in Seq(Lines) /\ Append(c2s, Head(todo[t])) \in Seq(Lines)
  BY <1>0, <1>3
<1>5. CASE SendBegin(t)
  <2>1. LineTypes'
    BY <1>0, <1>3, <1>4, <1>5 DEF SendBegin, LineTypes, net
  <2>2. ThreadTypes'
    BY <1>0, <1>2, <1>5 DEF SendBegin, ThreadTypes, LockFree
  <2> QED BY <1>1, <2>1, <2>2
<1>6. CASE SendEnd(t)
  <2>1. LineTypes'
    BY <1>0, <1>3, <1>4, <1>6 DEF SendEnd, LineTypes, client
  <2>2. ThreadTypes'
    BY <1>0, <1>6 DEF SendEnd, ThreadTypes
  <2> QED BY <1>1, <2>1, <2>2
<1> QED BY <1>5, <1>6

LEMMA EnqueueTypes ==
    ASSUME Types, NEW t \in Submitters, NEW tag \in Tags, Enqueue(t, tag)
    PROVE  Types'
<1> USE DEF Types
<1> DEFINE e == [id |-> next_id, tag |-> tag]
           grown == Append(pending_tags, <<next_id, tag>>)
<1>0. t \in Threads /\ MaxShares \in Nat /\ Len(shares) \in Nat /\ Len(shares) + 1 \in 0 .. MaxShares
  BY ThreadFacts DEF Enqueue, TagTypes
<1>1. SocketTypes' /\ JobTypes' /\ PoolTypes'
  BY DEF Enqueue, SocketTypes, JobTypes, PoolTypes, net
<1>2. StatTypes'
  BY DEF Enqueue, Counted, StatTypes, Verdicts
<1>3. LineTypes'
  BY <1>0, LineIsLine DEF Enqueue, LineTypes, net
<1>4. ThreadTypes'
  BY <1>0 DEF Enqueue, LockFree, ThreadTypes
<1>5. TagTypes'
  <2>1. shares' = Append(shares, e) /\ e \in [id : Nat \ {0}, tag : Tags]
    BY DEF Enqueue, TagTypes
  <2>2. shares' \in Seq([id : Nat \ {0}, tag : Tags]) /\ Len(shares') <= MaxShares
    BY <1>0, <2>1, AppendFacts DEF TagTypes
  <2>3. grown \in Seq((Nat \ {0}) \X Tags)
    BY DEF TagTypes
  <2>4. pending_tags' \in Seq((Nat \ {0}) \X Tags)
    <3>1. Evict + 1 \in Nat \ {0}
      BY ClientAssumption
    <3>2. \A S : \A s \in Seq(S) : \A m \in Nat \ {0} : SubSeq(s, m, Len(s)) \in Seq(S)
      OBVIOUS
    <3> HIDE DEF grown
    <3>3. SubSeq(grown, Evict + 1, Len(grown)) \in Seq((Nat \ {0}) \X Tags)
      BY ZenonT(30), <2>3, <3>1, <3>2
    <3> QED BY <2>3, <3>3 DEF Enqueue, grown
  <2>5. next_id' \in Nat \ {0} /\ told' = told
    BY DEF Enqueue, TagTypes
  <2> QED BY <2>2, <2>4, <2>5 DEF TagTypes
<1> QED BY <1>1, <1>2, <1>3, <1>4, <1>5

LEMMA Removed ==
    ASSUME NEW S, NEW s \in Seq(S), NEW i \in DOMAIN s
    PROVE  /\ RemoveAt(s, i) \in Seq(S) /\ Len(RemoveAt(s, i)) = Len(s) - 1
           /\ \A j \in DOMAIN RemoveAt(s, i) : \E k \in DOMAIN s : RemoveAt(s, i)[j] = s[k]
           /\ \A k \in DOMAIN s \ {i} : \E j \in DOMAIN RemoveAt(s, i) : RemoveAt(s, i)[j] = s[k]
<1> DEFINE a == SubSeq(s, 1, i - 1)
           b == SubSeq(s, i + 1, Len(s))
           r == a \o b
<1>1. Len(s) \in Nat /\ i \in 1 .. Len(s) /\ DOMAIN s = 1 .. Len(s)
  OBVIOUS
<1>2. a \in Seq(S) /\ Len(a) = i - 1 /\ \A k \in 1 .. i - 1 : a[k] = s[k]
  BY <1>1
<1>3. b \in Seq(S) /\ Len(b) = Len(s) - i /\ \A k \in 1 .. Len(s) - i : b[k] = s[i + k]
  BY <1>1
<1> HIDE DEF a, b
<1>4. r \in Seq(S) /\ Len(r) = Len(s) - 1 /\ DOMAIN r = 1 .. Len(s) - 1
  <2>0. a \in Seq(S) /\ b \in Seq(S)
    BY <1>2, <1>3
  <2>1. r \in Seq(S)
    BY <2>0
  <2>2. Len(r) = Len(a) + Len(b)
    BY <2>0
  <2>3. Len(r) = Len(s) - 1
    BY <1>1, <1>2, <1>3, <2>2
  <2> QED BY <2>1, <2>3
<1>5. \A k \in 1 .. i - 1 : r[k] = s[k]
  BY <1>1, <1>2, <1>3
<1>6. ASSUME NEW k \in i .. Len(s) - 1
      PROVE  r[k] = s[k + 1]
  <2>1. k - (i - 1) \in 1 .. Len(s) - i /\ i + (k - (i - 1)) = k + 1
    BY <1>1
  <2>2. r[k] = b[k - (i - 1)]
    BY <1>1, <1>2, <1>3
  <2> QED BY <1>3, <2>1, <2>2
<1> HIDE DEF r
<1>7. ASSUME NEW j \in DOMAIN r
      PROVE  \E k \in DOMAIN s : r[j] = s[k]
  <2>1. CASE j \in 1 .. i - 1
    BY <1>1, <1>5, <2>1
  <2>2. CASE j \in i .. Len(s) - 1
    <3>1. j + 1 \in DOMAIN s
      BY <1>1, <2>2
    <3> QED BY <1>6, <2>2, <3>1
  <2> QED BY <1>1, <1>4, <2>1, <2>2
<1>8. ASSUME NEW k \in DOMAIN s \ {i}
      PROVE  \E j \in DOMAIN r : r[j] = s[k]
  <2>1. CASE k < i
    <3>1. k \in 1 .. i - 1 /\ k \in DOMAIN r
      BY <1>1, <1>4, <2>1
    <3> QED BY <1>5, <3>1
  <2>2. CASE k > i
    <3>1. k - 1 \in i .. Len(s) - 1 /\ k - 1 \in DOMAIN r /\ (k - 1) + 1 = k
      BY <1>1, <1>4, <2>2
    <3>2. r[k - 1] = s[(k - 1) + 1]
      BY <1>6, <3>1
    <3> QED BY <3>1, <3>2
  <2> QED BY <1>1, <2>1, <2>2
<1>9. r = RemoveAt(s, i)
  BY DEF r, a, b, RemoveAt
<1> QED BY <1>4, <1>7, <1>8, <1>9

(* The first pending entry of an id: the least of the indices, if any.     *)
LEMMA LeastExists ==
    ASSUME NEW V, V /= {}, V \subseteq Nat
    PROVE  \E s \in V : \A t \in V : s <= t
<1>1. \E s \in V : \A t \in V : ~ (<<t, s>> \in OpToRel(<, Nat))
  BY NatLessThanWellFounded, WFMin
<1>2. PICK s \in V : \A t \in V : ~ (<<t, s>> \in OpToRel(<, Nat))
  BY <1>1
<1>3. \A t \in V : ~ (t < s)
  BY <1>2 DEF OpToRel
<1> QED BY <1>3

LEMMA PendingFound ==
    ASSUME TagTypes, NEW id
    PROVE  \/ /\ PendingOf(id) \in DOMAIN pending_tags
              /\ pending_tags[PendingOf(id)][1] = id
           \/ /\ PendingOf(id) = 0
              /\ \A i \in DOMAIN pending_tags : pending_tags[i][1] /= id
<1> DEFINE I == {i \in 1 .. Len(pending_tags) : pending_tags[i][1] = id}
<1>1. PendingOf(id) = IF I /= {} THEN Min(I) ELSE 0
  BY DEF PendingOf, SelectInSeq
<1>2. DOMAIN pending_tags = 1 .. Len(pending_tags) /\ Len(pending_tags) \in Nat
  BY DEF TagTypes
<1>3. I \subseteq Nat
  BY <1>2
<1>4. CASE I = {}
  BY <1>1, <1>2, <1>4
<1>5. CASE I /= {}
  <2> HIDE DEF I
  <2>1. \E s \in I : \A t \in I : s <= t
    BY <1>3, <1>5, LeastExists
  <2>2. Min(I) \in I
    BY <2>1 DEF Min
  <2> QED BY <1>1, <1>2, <1>5, <2>2 DEF I
<1> QED BY <1>4, <1>5

LEMMA ResultTypes ==
    ASSUME Types, Books, HandleResult
    PROVE  Types'
<1> USE DEF Types
<1> DEFINE r == Head(s2c)
           i == PendingOf(shares[r.share].id)
           tag == IF i = 0 THEN 0 ELSE pending_tags[i][2]
<1>1. s2c /= <<>> /\ s2c \in Seq(Lines) /\ r.kind \in Verdicts
  BY DEF HandleResult, LineTypes
<1>2. Tail(s2c) \in Seq(Lines) /\ r \in Lines
  BY <1>1, TailFacts
<1>3. r.share \in Shared(s2c)
  BY <1>1, SharedTail DEF Books, LinesSound
<1>4. r.share \in DOMAIN shares /\ r.share \in 1 .. MaxShares
  <2>1. r.share \in DOMAIN shares
    BY <1>3 DEF Books, Submitted, Back
  <2> QED BY <1>2, <2>1 DEF TagTypes, Lines
<1>5. SocketTypes' /\ JobTypes' /\ PoolTypes' /\ ThreadTypes'
  BY DEF HandleResult, SocketTypes, JobTypes, PoolTypes, ThreadTypes, control
<1>6. LineTypes'
  BY <1>2 DEF HandleResult, LineTypes, control
<1>7. StatTypes'
  BY <1>1 DEF HandleResult, StatTypes
<1>8. i \in DOMAIN pending_tags \/ i = 0
  BY PendingFound
<1>9. tag \in Tags \cup {0} /\ pending_tags' \in Seq((Nat \ {0}) \X Tags)
  <2>1. CASE i = 0
    BY <2>1 DEF HandleResult, TagTypes
  <2>2. CASE i \in DOMAIN pending_tags
    <3>1. pending_tags \in Seq((Nat \ {0}) \X Tags)
      BY DEF TagTypes
    <3>2. pending_tags[i] \in (Nat \ {0}) \X Tags /\ i /= 0
      BY <2>2, <3>1
    <3>3. RemoveAt(pending_tags, i) \in Seq((Nat \ {0}) \X Tags)
      BY <2>2, <3>1, Removed
    <3> QED BY <3>2, <3>3 DEF HandleResult
  <2> QED BY <1>8, <2>1, <2>2
<1>10. told' = told \cup {<<r.share, tag>>}
  BY DEF HandleResult
<1> HIDE DEF tag, i, r
<1>11. TagTypes'
  BY <1>4, <1>9, <1>10 DEF HandleResult, TagTypes
<1> QED BY <1>5, <1>6, <1>7, <1>11

LEMMA NetTypes ==
    ASSUME Types, Books, NetStep
    PROVE  Types'
<1> USE DEF Types
<1>0. Net \in Threads /\ None \notin Threads /\ MaxShares \in Nat /\ MaxSessions \in Nat
      /\ 0 \in 0 .. MaxShares
  BY ThreadFacts
<1>1. CASE Dial \/ NetExit
  <2>1. npc' \in {"dialing", "done"} /\ UNCHANGED <<client, todo, writing, main, net, history>>
    BY <1>1 DEF Dial, NetExit
  <2> QED BY <2>1 DEF SocketTypes, LineTypes, TagTypes, JobTypes, StatTypes, ThreadTypes, PoolTypes,
                      client, net, history
<1>2. CASE ConnectOk
  <2>1. SocketTypes'
    BY <1>0, <1>2 DEF ConnectOk, SocketTypes
  <2>2. TagTypes' /\ JobTypes' /\ StatTypes'
    BY <1>2 DEF ConnectOk, TagTypes, JobTypes, StatTypes, history
  <2>3. LineTypes'
    BY <1>0, <1>2, LineIsLine DEF ConnectOk, LineTypes, InputAtConnect
  <2>4. ThreadTypes'
    BY <1>2 DEF ConnectOk, ThreadTypes, LockFree
  <2>5. PoolTypes'
    BY <1>2 DEF ConnectOk, PoolTypes, NewPool, Announcements
  <2> QED BY <2>1, <2>2, <2>3, <2>4, <2>5
<1>3. CASE ConnectFails
  <2>1. pool_idx' \in 0 .. NPools - 1
    <3>1. NPools \in Nat \ {0} /\ pool_idx \in Nat
      BY ClientAssumption DEF SocketTypes
    <3> QED BY <1>3, <3>1 DEF ConnectFails, NextPool
  <2> QED BY <1>3, <2>1 DEF ConnectFails, SocketTypes, LineTypes, TagTypes, JobTypes, StatTypes,
                            ThreadTypes, PoolTypes, net, history
<1>4. CASE ResetIds
  BY <1>4 DEF ResetIds, SocketTypes, LineTypes, TagTypes, JobTypes, StatTypes, ThreadTypes, PoolTypes,
              net, history
<1>5. CASE Flush
  <2>1. Taken = outq /\ Left \in Seq(Lines)
    BY DEF Taken, Left, LineTypes
  <2>2. LineTypes'
    BY <1>0, <1>5, <2>1 DEF Flush, LineTypes, net
  <2>3. ThreadTypes'
    BY <1>5 DEF Flush, ThreadTypes, LockFree
  <2> QED BY <1>5, <2>2, <2>3 DEF Flush, SocketTypes, TagTypes, JobTypes, StatTypes, PoolTypes, net,
                                  history
<1>6. CASE HandleTarget \/ HandleNotify
  <2>1. s2c' \in Seq(Lines)
    BY <1>6, TailFacts DEF HandleTarget, HandleNotify, LineTypes
  <2>2. LineTypes'
    BY <1>6, <2>1 DEF HandleTarget, HandleNotify, LineTypes, control
  <2>3. JobTypes'
    BY <1>6 DEF HandleTarget, HandleNotify, JobTypes, SocketTypes
  <2> QED BY <1>6, <2>2, <2>3 DEF HandleTarget, HandleNotify, SocketTypes, TagTypes, StatTypes,
                                  ThreadTypes, PoolTypes, control, history
<1>7. CASE HandlePing
  <2>1. s2c' \in Seq(Lines)
    BY <1>7, TailFacts DEF HandlePing, LineTypes
  <2>2. LineTypes'
    BY <1>0, <1>7, <2>1, LineIsLine DEF HandlePing, LineTypes, client
  <2>3. ThreadTypes'
    BY <1>7 DEF HandlePing, Polling, LockFree, ThreadTypes
  <2> QED BY <1>7, <2>2, <2>3 DEF HandlePing, SocketTypes, TagTypes, StatTypes, JobTypes, PoolTypes,
                                  client, history
<1>8. CASE HandleResult
  BY <1>8, ResultTypes
<1>9. CASE CloseSocket
  <2>1. StatTypes'
    BY <1>9 DEF CloseSocket, StatTypes
  <2>2. SocketTypes'
    <3>1. fd' = 0 /\ alive' = FALSE /\ UNCHANGED <<running, pool_idx, sessions>>
      BY <1>9 DEF CloseSocket, FdClosed
    <3>2. 0 \in 0 .. MaxSessions
      BY ThreadFacts
    <3> QED BY <3>1, <3>2 DEF SocketTypes
  <2>3. ThreadTypes'
    BY <1>9 DEF CloseSocket, ThreadTypes
  <2> QED BY <1>9, <2>1, <2>2, <2>3 DEF CloseSocket, LineTypes, TagTypes, JobTypes, PoolTypes, history
<1> QED BY <1>1, <1>2, <1>3, <1>4, <1>5, <1>6, <1>7, <1>8, <1>9 DEF NetStep

LEMMA StopTypes ==
    ASSUME Types, StopFlag \/ StopStep
    PROVE  Types'
<1> USE DEF Types
<1>0. 0 \in 0 .. MaxSessions
  BY ThreadFacts
<1>1. CASE StopFlag
  BY <1>1 DEF StopFlag, SocketTypes, LineTypes, TagTypes, JobTypes, StatTypes, ThreadTypes, PoolTypes,
              net, history
<1>2. CASE StopClose
  BY <1>0, <1>2 DEF StopClose, SocketTypes, LineTypes, TagTypes, JobTypes, StatTypes, ThreadTypes,
              PoolTypes, history
<1>3. CASE StopJoin
  BY <1>3 DEF StopJoin, SocketTypes, LineTypes, TagTypes, JobTypes, StatTypes, ThreadTypes, PoolTypes,
              client, net, history
<1> QED BY <1>1, <1>2, <1>3 DEF StopStep

LEMMA PoolStepTypes ==
    ASSUME Types, Books, PoolStep
    PROVE  Types'
<1> USE DEF Types
<1>0. /\ pool \in [authed : BOOLEAN, announced : 0 .. 3, holds : SUBSET (1 .. MaxShares)]
      /\ Len(Announcements) = 3 /\ pool.holds \subseteq 1 .. MaxShares /\ pool.announced \in 0 .. 3
      /\ c2s \in Seq(Lines) /\ s2c \in Seq(Lines) /\ MaxShares \in Nat
  BY ThreadFacts DEF PoolTypes, LineTypes, Announcements
<1>1. TagTypes' /\ JobTypes' /\ StatTypes' /\ ThreadTypes'
  BY DEF PoolStep, PoolRead, PoolAnnounce, PoolAnswer, PoolHangsUp, TagTypes, JobTypes, StatTypes,
         ThreadTypes, client, control, history
<1>2. SocketTypes'
  BY DEF PoolStep, PoolRead, PoolAnnounce, PoolAnswer, PoolHangsUp, SocketTypes, client
<1>3. todo' = todo /\ outq' = outq
  BY DEF PoolStep, PoolRead, PoolAnnounce, PoolAnswer, PoolHangsUp, client, control
<1>4. CASE PoolRead
  <2>1. /\ Tail(c2s) \in Seq(Lines) /\ Head(c2s) \in Lines
        /\ Head(c2s).kind = "submit" => Head(c2s).share /= 0
    BY <1>0, <1>4, TailFacts DEF PoolRead, Books, LinesSound, Sound, Named
  <2>2. LineTypes'
    BY <1>3, <1>4, <2>1 DEF PoolRead, LineTypes
  <2>3. Head(c2s).kind = "submit" => Head(c2s).share \in 1 .. MaxShares
    BY <1>0, <2>1 DEF Lines
  <2>4. PoolTypes'
    BY <1>0, <1>4, <2>3 DEF PoolRead, PoolTypes
  <2> QED BY <1>1, <1>2, <2>2, <2>4
<1>5. CASE PoolAnnounce
  <2>1. pool.announced + 1 \in 1 .. 3
    BY <1>0, <1>5 DEF PoolAnnounce
  <2>2. Announcements[pool.announced + 1] \in {"target", "notify", "ping"}
    BY <2>1 DEF Announcements
  <2>3. Line(Announcements[pool.announced + 1], 0) \in Lines
    BY <1>0, <2>2, LineIsLine
  <2>4. LineTypes'
    BY <1>0, <1>3, <1>5, <2>3 DEF PoolAnnounce, LineTypes
  <2>5. PoolTypes'
    <3>1. pool' = [pool EXCEPT !.announced = pool.announced + 1] /\ pool.announced + 1 \in 0 .. 3
      BY <1>5, <2>1 DEF PoolAnnounce
    <3>2. pool' \in [authed : BOOLEAN, announced : 0 .. 3, holds : SUBSET (1 .. MaxShares)]
      BY <1>0, <3>1
    <3> QED BY <3>2 DEF PoolTypes, Announcements
  <2> QED BY <1>1, <1>2, <2>4, <2>5
<1>6. ASSUME NEW n \in pool.holds, NEW v \in Verdicts, PoolAnswer(n, v)
      PROVE  Types'
  <2>0. n \in 0 .. MaxShares
    BY <1>0
  <2>1. Line(v, n) \in Lines
    BY <2>0, LineIsLine
  <2>2. LineTypes'
    BY <1>0, <1>3, <1>6, <2>1 DEF PoolAnswer, LineTypes
  <2>3. PoolTypes'
    BY <1>0, <1>6 DEF PoolAnswer, PoolTypes
  <2> QED BY <1>1, <1>2, <2>2, <2>3
<1>7. CASE PoolHangsUp
  <2>1. LineTypes' /\ PoolTypes'
    BY <1>0, <1>3, <1>7 DEF PoolHangsUp, LineTypes, PoolTypes
  <2> QED BY <1>1, <1>2, <2>1
<1> QED BY <1>4, <1>5, <1>6, <1>7 DEF PoolStep

LEMMA TypesStep ==
    ASSUME Types, Books, [Next]_vars
    PROVE  Types'
<1>1. CASE UNCHANGED vars
  BY <1>1 DEF vars, client, control, net, history, Types, SocketTypes, LineTypes, TagTypes, JobTypes,
              StatTypes, ThreadTypes, PoolTypes
<1> QED BY <1>1, SendTypes, EnqueueTypes, NetTypes, StopTypes, PoolStepTypes DEF Next

-----------------------------------------------------------------------------
(* Sessions are kept.                                                      *)

LEMMA SessionsInit == Init => Sessions
BY DEF Init, Sessions, NoSession, TargetFirst, TargetSent, JobHasItsPoolsTarget, NewPool

\* A step that leaves the session's announcements alone.
LEMMA AnnouncementsKept ==
    ASSUME TargetFirst, TargetSent, JobHasItsPoolsTarget,
           UNCHANGED <<s2c, share_target, sessions, job>>, pool'.announced = pool.announced
    PROVE  TargetFirst' /\ TargetSent' /\ JobHasItsPoolsTarget'
BY DEF TargetFirst, TargetSent, JobHasItsPoolsTarget

\* The first line from the pool is read and is no target.
LEMMA OneLineRead ==
    ASSUME LineTypes, TargetFirst, TargetSent, s2c /= <<>>, s2c' = Tail(s2c), Head(s2c).kind /= "target",
           UNCHANGED <<share_target, sessions, pool>>
    PROVE  TargetFirst' /\ TargetSent'
<1>1. /\ Head(s2c) = s2c[1] /\ 1 \in DOMAIN s2c /\ DOMAIN s2c \subseteq Nat
      /\ \A i \in DOMAIN s2c' : i \in Nat \ {0} /\ i + 1 \in DOMAIN s2c /\ s2c'[i] = s2c[i + 1]
      /\ \A i \in DOMAIN s2c : i /= 1 => i - 1 \in DOMAIN s2c' /\ s2c'[i - 1] = s2c[i]
  <2>1. s2c \in Seq(Lines) /\ Tail(s2c) \in Seq(Lines)
    BY TailFacts DEF LineTypes
  <2>2. DOMAIN s2c \subseteq Nat /\ \A i \in DOMAIN Tail(s2c) : i \in Nat \ {0}
    BY <2>1
  <2> QED BY <2>1, <2>2, TailFacts
<1>2. TargetFirst'
  <2> SUFFICES ASSUME NEW i \in DOMAIN s2c', s2c'[i].kind = "notify", share_target /= sessions
               PROVE  \E j \in 1 .. i - 1 : s2c'[j].kind = "target"
    BY DEF TargetFirst
  <2>1. PICK j \in 1 .. (i + 1) - 1 : s2c[j].kind = "target"
    BY <1>1 DEF TargetFirst
  <2>2. j /= 1 /\ i \in Nat /\ j - 1 \in 1 .. i - 1 /\ j \in 1 .. i
    BY <1>1, <2>1
  <2>3. j \in DOMAIN s2c
    <3>1. s2c \in Seq(Lines) /\ i + 1 \in DOMAIN s2c
      BY <1>1 DEF LineTypes
    <3> QED BY <2>2, <3>1
  <2> QED BY <1>1, <2>1, <2>2, <2>3
<1>3. TargetSent'
  <2> SUFFICES ASSUME pool.announced >= 1, share_target /= sessions
               PROVE  \E j \in DOMAIN s2c' : s2c'[j].kind = "target"
    BY DEF TargetSent
  <2>1. PICK j \in DOMAIN s2c : s2c[j].kind = "target"
    BY DEF TargetSent
  <2> QED BY <1>1, <2>1
<1> QED BY <1>2, <1>3

\* The pool adds a line.
LEMMA OneLineMore ==
    ASSUME LineTypes, TargetFirst, TargetSent, NEW e \in Lines, s2c' = Append(s2c, e),
           UNCHANGED <<share_target, sessions>>,
           e.kind = "notify" => pool.announced >= 1,
           pool'.announced = pool.announced \/ e.kind = "target" \/ pool.announced >= 1
    PROVE  TargetFirst' /\ TargetSent'
<1> DEFINE n == Len(s2c) + 1
<1>1. /\ DOMAIN s2c' = DOMAIN s2c \cup {n} /\ n \notin DOMAIN s2c
      /\ \A i \in DOMAIN s2c : s2c'[i] = s2c[i] /\ i \in 1 .. n - 1
      /\ s2c'[n] = e /\ n \in Nat /\ \A i \in DOMAIN s2c : \A j \in 1 .. i - 1 : j \in DOMAIN s2c
  <2>1. s2c \in Seq(Lines) /\ DOMAIN s2c = 1 .. Len(s2c) /\ Len(s2c) \in Nat
    BY DEF LineTypes
  <2>2. \A i \in DOMAIN s2c : i \in 1 .. n - 1 /\ \A j \in 1 .. i - 1 : j \in DOMAIN s2c
    BY <2>1
  <2> QED BY <2>1, <2>2, AppendFacts
<1> HIDE DEF n
<1>2. TargetFirst'
  <2> SUFFICES ASSUME NEW i \in DOMAIN s2c', s2c'[i].kind = "notify", share_target /= sessions
               PROVE  \E j \in 1 .. i - 1 : s2c'[j].kind = "target"
    BY DEF TargetFirst
  <2>1. CASE i = n
    BY <1>1, <2>1 DEF TargetSent
  <2>2. CASE i \in DOMAIN s2c
    BY <1>1, <2>2 DEF TargetFirst
  <2> QED BY <1>1, <2>1, <2>2
<1>3. TargetSent'
  BY <1>1 DEF TargetSent
<1> QED BY <1>2, <1>3

LEMMA SessionsStep ==
    ASSUME Types, Sessions, [Next]_vars
    PROVE  Sessions'
<1> USE DEF Sessions
<1>0. LineTypes /\ SocketTypes /\ PoolTypes
  BY DEF Types
<1>1. ASSUME NEW t \in Threads, SendBegin(t) \/ SendEnd(t)
      PROVE  Sessions'
  <2>1. NoSession'
    BY <1>1 DEF SendBegin, SendEnd, NoSession, client
  <2> QED BY <1>1, <2>1, AnnouncementsKept DEF SendBegin, SendEnd, client, net
<1>2. ASSUME NEW t \in Submitters, NEW tag \in Tags, Enqueue(t, tag)
      PROVE  Sessions'
  <2>1. NoSession'
    BY <1>2 DEF Enqueue, NoSession
  <2> QED BY <1>2, <2>1, AnnouncementsKept DEF Enqueue, net
<1>3. CASE Dial \/ NetExit
  <2>1. NoSession'
    BY <1>3 DEF Dial, NetExit, NoSession, client
  <2> QED BY <1>3, <2>1, AnnouncementsKept DEF Dial, NetExit, client, net
<1>4. CASE ConnectOk
  BY <1>4 DEF ConnectOk, InputAtConnect, NewPool, NoSession, TargetFirst, TargetSent,
              JobHasItsPoolsTarget
<1>5. CASE ConnectFails \/ ResetIds
  <2>1. NoSession'
    BY <1>5 DEF ConnectFails, ResetIds, NoSession
  <2> QED BY <1>5, <2>1, AnnouncementsKept DEF ConnectFails, ResetIds, net
<1>6. CASE Flush
  <2>1. NoSession'
    BY <1>6 DEF Flush, NoSession
  <2> QED BY <1>6, <2>1, AnnouncementsKept DEF Flush, net
<1>7. CASE HandleTarget
  BY <1>7 DEF HandleTarget, control, NoSession, TargetFirst, TargetSent, JobHasItsPoolsTarget
<1>8. CASE HandleNotify
  <2>1. s2c /= <<>> /\ s2c \in Seq(Lines) /\ Head(s2c).kind = "notify"
    BY <1>0, <1>8 DEF HandleNotify, LineTypes
  <2>2. 1 \in DOMAIN s2c /\ s2c[1].kind = "notify"
    BY <2>1, TailFacts
  <2>3. share_target = sessions
    BY <2>2 DEF TargetFirst
  <2>4. JobHasItsPoolsTarget' /\ NoSession'
    BY <1>8, <2>3 DEF HandleNotify, control, JobHasItsPoolsTarget, NoSession
  <2>5. s2c' = Tail(s2c) /\ UNCHANGED <<share_target, sessions, pool>>
    BY <1>8 DEF HandleNotify
  <2> QED BY <1>0, <2>1, <2>4, <2>5, OneLineRead
<1>9. CASE HandlePing \/ HandleResult
  <2>1. s2c /= <<>> /\ Head(s2c).kind /= "target"
    BY <1>9 DEF HandlePing, HandleResult, Verdicts
  <2>2. s2c' = Tail(s2c) /\ UNCHANGED <<share_target, sessions, pool, job, fd, npc>>
    BY <1>9 DEF HandlePing, HandleResult, client, control
  <2>3. JobHasItsPoolsTarget' /\ NoSession'
    BY <2>2 DEF JobHasItsPoolsTarget, NoSession
  <2> QED BY <1>0, <2>1, <2>2, <2>3, OneLineRead
<1>10. CASE CloseSocket
  <2>1. NoSession'
    BY <1>10 DEF CloseSocket, FdClosed, NoSession
  <2> QED BY <1>10, <2>1, AnnouncementsKept DEF CloseSocket
<1>11. CASE StopFlag \/ StopStep
  <2>1. NoSession'
    BY <1>11 DEF StopFlag, StopStep, StopClose, StopJoin, NoSession, client
  <2> QED BY <1>11, <2>1, AnnouncementsKept DEF StopFlag, StopStep, StopClose, StopJoin, client, net
<1>12. CASE PoolStep
  <2>1. /\ NoSession' /\ JobHasItsPoolsTarget' /\ UNCHANGED <<share_target, sessions, job>>
    BY <1>12 DEF PoolStep, PoolRead, PoolAnnounce, PoolAnswer, PoolHangsUp, client, control, NoSession,
                 JobHasItsPoolsTarget
  <2>2. pool.announced \in 0 .. 3
    BY <1>0 DEF PoolTypes, Announcements
  <2>3. CASE PoolRead \/ PoolHangsUp
    <3>1. pool'.announced = pool.announced /\ s2c' = s2c
      BY <1>0, <2>3 DEF PoolRead, PoolHangsUp, PoolTypes
    <3> QED BY <2>1, <3>1, AnnouncementsKept
  <2>4. CASE PoolAnnounce
    <3> DEFINE k == Announcements[pool.announced + 1]
    <3>1. pool.announced \in {0, 1, 2}
      BY <2>2, <2>4 DEF PoolAnnounce, Announcements
    <3>2. k \in {"target", "notify", "ping"} /\ (k = "target" \/ pool.announced >= 1)
      BY <3>1 DEF Announcements
    <3>3. s2c' = Append(s2c, Line(k, 0))
      BY <2>4 DEF PoolAnnounce
    <3> HIDE DEF k
    <3>4. Line(k, 0) \in Lines /\ Line(k, 0).kind = k
      BY <3>2, LineIsLine, ThreadFacts
    <3> QED BY <1>0, <2>1, <3>2, <3>3, <3>4, OneLineMore
  <2>5. ASSUME NEW m \in pool.holds, NEW v \in Verdicts, PoolAnswer(m, v)
        PROVE  Sessions'
    <3>1. m \in 0 .. MaxShares /\ pool.holds \subseteq 1 .. MaxShares
      BY <1>0, ThreadFacts DEF PoolTypes
    <3>2. Line(v, m) \in Lines /\ Line(v, m).kind = v
      BY <3>1, LineIsLine
    <3>3. v /= "notify"
      BY DEF Verdicts
    <3>4. s2c' = Append(s2c, Line(v, m)) /\ pool'.announced = pool.announced
      BY <1>0, <2>5 DEF PoolAnswer, PoolTypes
    <3> QED BY <1>0, <2>1, <3>2, <3>3, <3>4, OneLineMore
  <2> QED BY <1>12, <2>3, <2>4, <2>5 DEF PoolStep
<1>13. CASE UNCHANGED vars
  BY <1>13 DEF vars, client, control, net, NoSession, TargetFirst, TargetSent, JobHasItsPoolsTarget
<1> QED BY <1>1, <1>2, <1>3, <1>4, <1>5, <1>6, <1>7, <1>8, <1>9, <1>10, <1>11, <1>12, <1>13
        DEF Next, NetStep

-----------------------------------------------------------------------------
(* Books are kept.                                                         *)

LEMMA EmptySound == Sound(<<>>) /\ Shared(<<>>) = {}
BY DEF Sound, Once, Named, Shared

LEMMA BooksInit == Init => Books
<1> SUFFICES ASSUME Init PROVE Books
  OBVIOUS
<1>1. /\ \A t \in Threads : todo[t] = <<>>
      /\ outq = <<>> /\ c2s = <<>> /\ s2c = <<>> /\ pool.holds = {} /\ told = {} /\ shares = <<>>
      /\ stats.submitted = 0 /\ stats.accepted = 0 /\ stats.stale = 0 /\ stats.rejected = 0
  BY DEF Init, NewPool
<1>2. /\ \A t \in Threads : Hands(t) = {}
      /\ Queued = {} /\ Sent = {} /\ Back = {} /\ Held = {} /\ Answered = {}
  BY <1>1, EmptySound DEF Hands, Queued, Sent, Back, Held, Answered
<1>3. LinesSound
  BY <1>1, EmptySound DEF LinesSound
<1>4. Counts
  BY <1>1, <1>2, FS_EmptySet DEF Counts
<1> QED BY <1>1, <1>2, <1>3, <1>4 DEF Books, Submitted, HandsApart, RestApart, ToldOnce

\* What is not answered is not counted.
LEMMA CountsKept ==
    ASSUME ToldOnce, Counts, UNCHANGED <<shares, told>>,
           UNCHANGED <<stats.submitted, stats.accepted, stats.stale, stats.rejected>>
    PROVE  ToldOnce' /\ Counts' /\ Answered' = Answered
<1>1. Answered' = Answered
  BY DEF Answered
<1> QED BY <1>1 DEF ToldOnce, Counts

\* A step that moves no line.
LEMMA PlacesKept ==
    ASSUME Books, UNCHANGED <<todo, outq, c2s, s2c, shares, told>>, pool'.holds \subseteq pool.holds,
           UNCHANGED <<stats.submitted, stats.accepted, stats.stale, stats.rejected>>
    PROVE  Books'
<1> USE DEF Books
<1>1. /\ \A t \in Threads : Hands(t)' = Hands(t)
      /\ Queued' = Queued /\ Sent' = Sent /\ Back' = Back /\ Held' \subseteq Held
  BY DEF Hands, Queued, Sent, Back, Held
<1>2. LinesSound'
  BY DEF LinesSound
<1>3. ToldOnce' /\ Counts' /\ Answered' = Answered
  BY CountsKept
<1>4. Submitted'
  BY <1>1, <1>3 DEF Submitted
<1>5. HandsApart' /\ RestApart'
  BY <1>1, <1>3 DEF HandsApart, RestApart
<1> QED BY <1>2, <1>3, <1>4, <1>5

\* A thread passes its first line on, to the queue or to the connection, or
\* loses it.
LEMMA LinePassed ==
    ASSUME Types, Books, NEW t \in Threads, todo[t] /= <<>>,
           todo' = [todo EXCEPT ![t] = Tail(todo[t])],
           \/ outq' = Append(outq, Head(todo[t])) /\ c2s' = c2s
           \/ outq' = outq /\ c2s' = Append(c2s, Head(todo[t]))
           \/ outq' = outq /\ c2s' = c2s,
           UNCHANGED <<s2c, pool, shares, told, stats>>
    PROVE  Books'
<1> USE DEF Books
<1> DEFINE h == Head(todo[t])
           n == h.share
<1>0. /\ todo \in [Threads -> Seq(Lines)] /\ todo[t] \in Seq(Lines)
      /\ outq \in Seq(Lines) /\ c2s \in Seq(Lines)
      /\ Sound(todo[t]) /\ Sound(outq) /\ Sound(c2s)
  BY DEF Types, LineTypes, LinesSound
<1>1. /\ Sound(Tail(todo[t])) /\ Shared(Tail(todo[t])) = Hands(t) \ {n}
      /\ n \in Hands(t) \cup {0}
      /\ h.kind \in {"submit"} \cup Verdicts => n \in Hands(t)
  BY <1>0, SharedTail DEF Hands
<1>2. h \in Lines
  BY <1>0, TailFacts
<1> HIDE DEF h
<1>3. 0 \notin Hands(t) /\ 0 \notin Queued /\ 0 \notin Sent
  BY DEF Hands, Queued, Sent, Shared
<1>4. n \notin Queued /\ n \notin Sent
  BY <1>1, <1>3 DEF HandsApart
<1>5. /\ Sound(Append(outq, h)) /\ Shared(Append(outq, h)) = Queued \cup ({n} \ {0})
      /\ Sound(Append(c2s, h)) /\ Shared(Append(c2s, h)) = Sent \cup ({n} \ {0})
  BY <1>0, <1>1, <1>2, <1>3, <1>4, SharedAppend DEF Queued, Sent
<1>6. LinesSound'
  BY <1>0, <1>1, <1>5 DEF LinesSound, h
<1>7. ToldOnce' /\ Counts' /\ Answered' = Answered
  BY CountsKept
<1>8. /\ Hands(t)' = Hands(t) \ {n} /\ \A u \in Threads \ {t} : Hands(u)' = Hands(u)
      /\ Back' = Back /\ Held' = Held
  BY <1>0, <1>1 DEF Hands, Back, Held
<1>9. \/ Queued' = Queued \cup ({n} \ {0}) /\ Sent' = Sent
      \/ Queued' = Queued /\ Sent' = Sent \cup ({n} \ {0})
      \/ Queued' = Queued /\ Sent' = Sent
  BY <1>5 DEF Queued, Sent, h
<1> HIDE DEF n
<1>10. Submitted'
  <2>1. \A u \in Threads : Hands(u)' \subseteq DOMAIN shares
    BY <1>8 DEF Submitted
  <2>2. {n} \ {0} \subseteq DOMAIN shares
    BY <1>1 DEF Submitted
  <2> QED BY <1>7, <1>8, <1>9, <2>1, <2>2 DEF Submitted
<1>11. ASSUME NEW u \in Threads
       PROVE  /\ \A v \in Threads \ {u} : Hands(u)' \cap Hands(v)' = {}
              /\ Hands(u)' \cap Queued' = {} /\ Hands(u)' \cap Sent' = {} /\ Hands(u)' \cap Back' = {}
              /\ Hands(u)' \cap Held' = {} /\ Hands(u)' \cap Answered' = {}
  <2>1. Hands(u)' \subseteq Hands(u) /\ n \notin Hands(u)' \ {0} /\ 0 \notin Hands(u)
    <3>1. 0 \notin Hands(u)
      BY DEF Hands, Shared
    <3>2. CASE u = t
      BY <1>8, <3>1, <3>2
    <3>3. CASE u /= t
      <4>1. Hands(t) \cap Hands(u) = {}
        BY <3>3 DEF HandsApart
      <4> QED BY <1>1, <1>8, <3>1, <3>3, <4>1
    <3> QED BY <3>2, <3>3
  <2>2. \A v \in Threads : Hands(v)' \subseteq Hands(v)
    BY <1>8
  <2>3. \A v \in Threads \ {u} : Hands(u)' \cap Hands(v)' = {}
    BY <2>1, <2>2 DEF HandsApart
  <2>4. Hands(u)' \cap Queued' = {}
    BY <1>9, <2>1 DEF HandsApart
  <2>5. Hands(u)' \cap Sent' = {}
    BY <1>9, <2>1 DEF HandsApart
  <2>6. Hands(u)' \cap Back' = {} /\ Hands(u)' \cap Held' = {} /\ Hands(u)' \cap Answered' = {}
    BY <1>7, <1>8, <2>1 DEF HandsApart
  <2> QED BY <2>3, <2>4, <2>5, <2>6
<1>12. HandsApart'
  BY <1>11 DEF HandsApart
<1>13. RestApart'
  <2>1. /\ n \notin Queued /\ n \notin Sent
        /\ n /= 0 => n \notin Back /\ n \notin Held /\ n \notin Answered
    BY <1>1, <1>4 DEF HandsApart
  <2> QED BY <1>7, <1>8, <1>9, <2>1 DEF RestApart
<1> QED BY <1>6, <1>7, <1>10, <1>12, <1>13

LEMMA SendBooks ==
    ASSUME Types, Books, NEW t \in Threads, SendBegin(t) \/ SendEnd(t)
    PROVE  Books'
<1>0. None \notin Threads
  BY ThreadFacts
<1>1. CASE SendBegin(t) /\ fd /= 0
  BY <1>1, PlacesKept DEF SendBegin, net, history
<1>2. CASE SendBegin(t) /\ fd = 0
  BY <1>2, LinePassed DEF SendBegin, net, history
<1>3. CASE SendEnd(t)
  <2>1. todo[t] /= <<>>
    BY <1>0, <1>3 DEF SendEnd, Types, ThreadTypes
  <2>2. outq' = outq /\ (c2s' = c2s \/ c2s' = Append(c2s, Head(todo[t])))
    BY <1>3 DEF SendEnd, client
  <2>3. todo' = [todo EXCEPT ![t] = Tail(todo[t])] /\ UNCHANGED <<s2c, pool, shares, told, stats>>
    BY <1>3 DEF SendEnd, client, history
  <2> QED BY <2>1, <2>2, <2>3, LinePassed
<1> QED BY <1>1, <1>2, <1>3

\* A new share is a number nobody has seen.
LEMMA EnqueueBooks ==
    ASSUME Types, Books, NEW t \in Submitters, NEW tag \in Tags, Enqueue(t, tag)
    PROVE  Books'
<1> USE DEF Books
<1> DEFINE n == Len(shares) + 1
           line == <<Submit(n)>>
<1>0. /\ t \in Threads /\ Len(shares) \in Nat /\ n \in 0 .. MaxShares /\ n /= 0
      /\ todo \in [Threads -> Seq(Lines)]
  BY ThreadFacts DEF Enqueue, Types, TagTypes, LineTypes
<1>1. DOMAIN shares' = DOMAIN shares \cup {n} /\ n \notin DOMAIN shares /\ Len(shares') = n
  <2>1. [id |-> next_id, tag |-> tag] \in [id : Nat \ {0}, tag : Tags]
    BY DEF Types, TagTypes
  <2> QED BY <2>1, AppendFacts DEF Types, TagTypes, Enqueue
<1>2. Sound(line) /\ Shared(line) = {n}
  <2>1. DOMAIN line = {1} /\ line[1].share = n
    BY <1>0, LineIsLine
  <2> HIDE DEF line
  <2> QED BY <1>0, <2>1 DEF Sound, Once, Named, Shared
<1>3. todo' = [todo EXCEPT ![t] = line] /\ UNCHANGED <<outq, c2s, s2c, pool, told>>
  BY DEF Enqueue, net
<1> HIDE DEF line
<1>4. LinesSound'
  BY <1>0, <1>2, <1>3 DEF LinesSound
<1>5. /\ Hands(t)' = {n} /\ \A u \in Threads \ {t} : Hands(u)' = Hands(u)
      /\ Queued' = Queued /\ Sent' = Sent /\ Back' = Back /\ Held' = Held /\ Answered' = Answered
  BY <1>0, <1>2, <1>3 DEF Hands, Queued, Sent, Back, Held, Answered
<1>6. ToldOnce'
  BY <1>3 DEF ToldOnce
<1>7. Counts'
  <2>1. /\ stats'.submitted = stats.submitted + 1 /\ stats'.accepted = stats.accepted
        /\ stats'.stale = stats.stale /\ stats'.rejected = stats.rejected
    BY DEF Enqueue, Counted, Types, StatTypes, Verdicts
  <2> QED BY <1>1, <1>5, <2>1 DEF Counts
<1> HIDE DEF n
<1>8. Submitted'
  BY <1>1, <1>5 DEF Submitted
<1>9. /\ \A u \in Threads : n \notin Hands(u)
      /\ n \notin Queued /\ n \notin Sent /\ n \notin Back /\ n \notin Held /\ n \notin Answered
  BY <1>1 DEF Submitted
<1>10. HandsApart'
  BY <1>5, <1>9 DEF HandsApart
<1>11. RestApart'
  BY <1>5 DEF RestApart
<1> QED BY <1>4, <1>6, <1>7, <1>8, <1>10, <1>11

\* The network thread starts afresh: what it held and what was in the old
\* connection is gone.
LEMMA ConnectBooks ==
    ASSUME Types, Books, ConnectOk
    PROVE  Books'
<1> USE DEF Books
<1> DEFINE hello == <<Line("subscribe", 0), Line("authorize", 0)>>
<1>0. Net \in Threads /\ todo \in [Threads -> Seq(Lines)]
  BY ThreadFacts DEF Types, LineTypes
<1>1. Sound(hello) /\ Shared(hello) = {}
  <2>1. DOMAIN hello = {1, 2} /\ \A i \in {1, 2} : hello[i].share = 0
                              /\ hello[i].kind \notin {"submit"} \cup Verdicts
    BY DEF Line, Verdicts
  <2> HIDE DEF hello
  <2> QED BY <2>1 DEF Sound, Once, Named, Shared
<1>2. /\ todo' = [todo EXCEPT ![Net] = hello] /\ c2s' = <<>> /\ s2c' = <<>> /\ pool'.holds = {}
      /\ UNCHANGED <<outq, shares, told, stats>>
  BY DEF ConnectOk, InputAtConnect, NewPool, history
<1> HIDE DEF hello
<1>3. LinesSound'
  BY <1>0, <1>1, <1>2, EmptySound DEF LinesSound
<1>4. ToldOnce' /\ Counts' /\ Answered' = Answered
  BY <1>2, CountsKept
<1>5. /\ Hands(Net)' = {} /\ \A u \in Threads \ {Net} : Hands(u)' = Hands(u)
      /\ Queued' = Queued /\ Sent' = {} /\ Back' = {} /\ Held' = {}
  BY <1>0, <1>1, <1>2, EmptySound DEF Hands, Queued, Sent, Back, Held
<1>6. Submitted'
  BY <1>2, <1>4, <1>5 DEF Submitted
<1>7. HandsApart'
  BY <1>4, <1>5 DEF HandsApart
<1>8. RestApart'
  BY <1>4, <1>5 DEF RestApart
<1> QED BY <1>3, <1>4, <1>6, <1>7, <1>8

\* The queue moves to the network thread as a whole.
LEMMA FlushBooks ==
    ASSUME Types, Books, Flush
    PROVE  Books'
<1> USE DEF Books
<1>0. Net \in Threads /\ todo \in [Threads -> Seq(Lines)] /\ outq \in Seq(Lines)
  BY ThreadFacts DEF Types, LineTypes
<1>1. Left = <<>>
  BY <1>0 DEF Left, Taken
<1>2. /\ todo' = [todo EXCEPT ![Net] = outq] /\ outq' = <<>>
      /\ UNCHANGED <<c2s, s2c, pool, shares, told, stats>>
  BY <1>1 DEF Flush, Taken, net, history
<1>3. LinesSound'
  BY <1>0, <1>2, EmptySound DEF LinesSound
<1>4. ToldOnce' /\ Counts' /\ Answered' = Answered
  BY <1>2, CountsKept
<1>5. /\ Hands(Net)' = Queued /\ \A u \in Threads \ {Net} : Hands(u)' = Hands(u)
      /\ Queued' = {} /\ Sent' = Sent /\ Back' = Back /\ Held' = Held
  BY <1>0, <1>2, EmptySound DEF Hands, Queued, Sent, Back, Held
<1>6. Submitted'
  BY <1>2, <1>4, <1>5 DEF Submitted
<1>7. HandsApart'
  <2> SUFFICES ASSUME NEW u \in Threads
               PROVE  /\ \A v \in Threads \ {u} : Hands(u)' \cap Hands(v)' = {}
                      /\ Hands(u)' \cap Queued' = {} /\ Hands(u)' \cap Sent' = {}
                      /\ Hands(u)' \cap Back' = {} /\ Hands(u)' \cap Held' = {}
                      /\ Hands(u)' \cap Answered' = {}
    BY DEF HandsApart
  <2>1. CASE u = Net
    BY <1>4, <1>5, <2>1 DEF HandsApart, RestApart
  <2>2. CASE u /= Net
    BY <1>4, <1>5, <2>2 DEF HandsApart, RestApart
  <2> QED BY <2>1, <2>2
<1>8. RestApart'
  BY <1>4, <1>5 DEF RestApart
<1> QED BY <1>3, <1>4, <1>6, <1>7, <1>8

\* A line from the pool that is no result.
LEMMA ReadBooks ==
    ASSUME Types, Books, HandleTarget \/ HandleNotify \/ HandlePing
    PROVE  Books'
<1> USE DEF Books
<1>0. /\ Net \in Threads /\ todo \in [Threads -> Seq(Lines)] /\ s2c \in Seq(Lines) /\ s2c /= <<>>
      /\ Sound(s2c)
  BY ThreadFacts DEF Types, LineTypes, LinesSound, HandleTarget, HandleNotify, HandlePing
<1>1. /\ s2c' = Tail(s2c) /\ UNCHANGED <<outq, c2s, pool, shares, told, stats>>
  BY DEF HandleTarget, HandleNotify, HandlePing, client, history
<1>2. Sound(Tail(s2c)) /\ Shared(Tail(s2c)) \subseteq Back
  BY <1>0, SharedTail DEF Back
<1>3. \/ todo' = todo
      \/ /\ todo' = [todo EXCEPT ![Net] = <<Line("pong", 0)>>]
         /\ Sound(<<Line("pong", 0)>>) /\ Shared(<<Line("pong", 0)>>) = {}
  <2> DEFINE pong == <<Line("pong", 0)>>
  <2>1. DOMAIN pong = {1} /\ pong[1].share = 0 /\ pong[1].kind \notin {"submit"} \cup Verdicts
    BY DEF Line, Verdicts
  <2>2. Sound(pong) /\ Shared(pong) = {}
    <3> HIDE DEF pong
    <3> QED BY <2>1 DEF Sound, Once, Named, Shared
  <2> QED BY <2>2 DEF HandleTarget, HandleNotify, HandlePing, control
<1>4. LinesSound'
  BY <1>0, <1>1, <1>2, <1>3 DEF LinesSound
<1>5. ToldOnce' /\ Counts' /\ Answered' = Answered
  BY <1>1, CountsKept
<1>6. /\ \A u \in Threads : Hands(u)' \subseteq Hands(u)
      /\ Queued' = Queued /\ Sent' = Sent /\ Back' \subseteq Back /\ Held' = Held
  BY <1>0, <1>1, <1>2, <1>3 DEF Hands, Queued, Sent, Back, Held
<1>7. Submitted'
  BY <1>1, <1>5, <1>6 DEF Submitted
<1>8. HandsApart'
  BY <1>5, <1>6 DEF HandsApart
<1>9. RestApart'
  BY <1>5, <1>6 DEF RestApart
<1> QED BY <1>4, <1>5, <1>7, <1>8, <1>9

\* A result moves its share from the connection to the answered ones, and is
\* counted once.
LEMMA ResultBooks ==
    ASSUME Types, Books, HandleResult
    PROVE  Books'
<1> USE DEF Books
<1> DEFINE n == Head(s2c).share
           k == Head(s2c).kind
<1>0. /\ s2c \in Seq(Lines) /\ s2c /= <<>> /\ k \in Verdicts /\ Sound(s2c)
  BY DEF Types, LineTypes, LinesSound, HandleResult
<1>1. Sound(Tail(s2c)) /\ Shared(Tail(s2c)) = Back \ {n} /\ n \in Back
  BY <1>0, SharedTail DEF Back
<1>2. /\ s2c' = Tail(s2c) /\ UNCHANGED <<todo, outq, c2s, pool, shares>>
      /\ stats' = [stats EXCEPT ![k] = stats[k] + 1]
  BY DEF HandleResult, control
<1>3. PICK tag : told' = told \cup {<<n, tag>>}
  BY DEF HandleResult
<1> HIDE DEF n, k
<1>4. n \notin Answered /\ n \in DOMAIN shares
  BY <1>1 DEF RestApart, Submitted
<1>5. LinesSound'
  BY <1>1, <1>2 DEF LinesSound
<1>6. Answered' = Answered \cup {n}
  <2>1. Answered' = {p[1] : p \in told \cup {<<n, tag>>}}
    BY <1>3 DEF Answered
  <2>2. <<n, tag>>[1] = n
    OBVIOUS
  <2> QED BY <2>1, <2>2, Zenon DEF Answered
<1>7. ToldOnce'
  BY <1>3, <1>4 DEF ToldOnce, Answered
<1>8. /\ \A u \in Threads : Hands(u)' = Hands(u)
      /\ Queued' = Queued /\ Sent' = Sent /\ Back' = Back \ {n} /\ Held' = Held
  BY <1>1, <1>2 DEF Hands, Queued, Sent, Back, Held
<1>9. Counts'
  <2>1. Len(shares) \in Nat /\ DOMAIN shares = 1 .. Len(shares)
    BY DEF Types, TagTypes
  <2>2. IsFiniteSet(Answered)
    <3>1. IsFiniteSet(1 .. Len(shares))
      BY <2>1, FS_Interval
    <3>2. Answered \subseteq 1 .. Len(shares)
      BY <2>1 DEF Submitted
    <3> QED BY <3>1, <3>2, FS_Subset
  <2>3. Cardinality(Answered \cup {n}) = Cardinality(Answered) + 1
    BY <1>4, <2>2, FS_AddElement
  <2>4. /\ stats'.submitted = stats.submitted
        /\ stats'.accepted + stats'.stale + stats'.rejected
             = stats.accepted + stats.stale + stats.rejected + 1
    <3>1. stats \in [{"submitted", "reconnects"} \cup Verdicts -> Nat]
      BY DEF Types, StatTypes
    <3>2. stats.accepted \in Nat /\ stats.stale \in Nat /\ stats.rejected \in Nat
      BY <3>1 DEF Verdicts
    <3>3. CASE k = "accepted"
      BY <1>2, <3>1, <3>2, <3>3 DEF Verdicts
    <3>4. CASE k = "stale"
      BY <1>2, <3>1, <3>2, <3>4 DEF Verdicts
    <3>5. CASE k = "rejected"
      BY <1>2, <3>1, <3>2, <3>5 DEF Verdicts
    <3> QED BY <1>0, <3>3, <3>4, <3>5 DEF Verdicts
  <2> QED BY <1>2, <1>6, <2>3, <2>4 DEF Counts
<1>10. Submitted'
  BY <1>2, <1>4, <1>6, <1>8 DEF Submitted
<1>11. HandsApart'
  <2>1. \A u \in Threads : n \notin Hands(u)
    BY <1>1 DEF HandsApart
  <2> QED BY <1>6, <1>8, <2>1 DEF HandsApart
<1>12. RestApart'
  BY <1>1, <1>6, <1>8 DEF RestApart
<1> QED BY <1>5, <1>7, <1>9, <1>10, <1>11, <1>12

LEMMA PoolBooks ==
    ASSUME Types, Books, PoolStep
    PROVE  Books'
<1> USE DEF Books
<1>0. /\ c2s \in Seq(Lines) /\ s2c \in Seq(Lines) /\ Sound(c2s) /\ Sound(s2c)
      /\ pool \in [authed : BOOLEAN, announced : 0 .. 3, holds : SUBSET (1 .. MaxShares)]
      /\ pool.holds \subseteq 1 .. MaxShares
  BY DEF Types, LineTypes, LinesSound, PoolTypes, Announcements
<1>1. UNCHANGED <<todo, outq, shares, told, stats>>
  BY DEF PoolStep, PoolRead, PoolAnnounce, PoolAnswer, PoolHangsUp, client, control, history
<1>2. ToldOnce' /\ Counts' /\ Answered' = Answered
  BY <1>1, CountsKept
<1>3. /\ \A u \in Threads : Hands(u)' = Hands(u)
      /\ Queued' = Queued
  BY <1>1 DEF Hands, Queued
<1>4. CASE PoolRead
  <2> DEFINE n == Head(c2s).share
  <2>1. /\ c2s /= <<>> /\ c2s' = Tail(c2s) /\ s2c' = s2c
        /\ \/ Head(c2s).kind = "submit" /\ pool'.holds = pool.holds \cup {n}
           \/ pool'.holds = pool.holds
    BY <1>0, <1>4 DEF PoolRead
  <2>2. /\ Sound(Tail(c2s)) /\ Shared(Tail(c2s)) = Sent \ {n}
        /\ Head(c2s).kind = "submit" => n \in Sent
    BY <1>0, <2>1, SharedTail DEF Sent
  <2> HIDE DEF n
  <2>3. LinesSound'
    BY <1>1, <2>1, <2>2 DEF LinesSound
  <2>4. /\ Sent' = Sent \ {n} /\ Back' = Back
        /\ Held' = Held \/ (Held' = Held \cup {n} /\ n \in Sent)
    BY <2>1, <2>2 DEF Sent, Back, Held
  <2>5. Submitted'
    BY <1>1, <1>2, <1>3, <2>4 DEF Submitted
  <2>6. HandsApart'
    BY <1>2, <1>3, <2>4 DEF HandsApart
  <2>7. RestApart'
    BY <1>2, <1>3, <2>4 DEF RestApart
  <2> QED BY <1>2, <2>3, <2>5, <2>6, <2>7
<1>5. CASE PoolAnnounce
  <2> DEFINE e == Line(Announcements[pool.announced + 1], 0)
  <2>1. /\ s2c' = Append(s2c, e) /\ c2s' = c2s /\ pool'.holds = pool.holds
        /\ pool.announced \in {0, 1, 2}
    BY <1>0, <1>5 DEF PoolAnnounce, Announcements
  <2>2. Announcements[pool.announced + 1] \in {"target", "notify", "ping"}
    BY <2>1 DEF Announcements
  <2>3. e \in Lines /\ e.share = 0 /\ e.kind \notin {"submit"} \cup Verdicts
    BY <2>2, LineIsLine, ThreadFacts DEF Verdicts
  <2> HIDE DEF e
  <2>4. 0 \notin Shared(s2c)
    BY DEF Shared
  <2>5. Sound(Append(s2c, e)) /\ Shared(Append(s2c, e)) = Back \cup ({0} \ {0})
    BY <1>0, <2>3, <2>4, SharedAppend DEF Back
  <2>6. LinesSound'
    BY <1>1, <2>1, <2>5 DEF LinesSound
  <2>7. Sent' = Sent /\ Held' = Held /\ Back' = Back
    BY <2>1, <2>5 DEF Sent, Held, Back
  <2>8. Submitted' /\ HandsApart' /\ RestApart'
    BY <1>1, <1>2, <1>3, <2>7 DEF Submitted, HandsApart, RestApart
  <2> QED BY <1>2, <2>6, <2>8
<1>6. ASSUME NEW n \in pool.holds, NEW v \in Verdicts, PoolAnswer(n, v)
      PROVE  Books'
  <2> DEFINE e == Line(v, n)
  <2>1. s2c' = Append(s2c, e) /\ c2s' = c2s /\ pool'.holds = pool.holds \ {n}
    BY <1>0, <1>6 DEF PoolAnswer
  <2>2. n \in 0 .. MaxShares /\ n /= 0
    BY <1>0, ThreadFacts
  <2>3. e \in Lines /\ e.share = n
    BY <2>2, LineIsLine
  <2> HIDE DEF e
  <2>4. n \notin Shared(s2c) /\ n \in Held
    BY DEF RestApart, Back, Held
  <2>5. Sound(Append(s2c, e)) /\ Shared(Append(s2c, e)) = Back \cup {n}
    BY <1>0, <2>2, <2>3, <2>4, SharedAppend DEF Back
  <2>6. LinesSound'
    BY <1>1, <2>1, <2>5 DEF LinesSound
  <2>7. Sent' = Sent /\ Held' = Held \ {n} /\ Back' = Back \cup {n}
    BY <2>1, <2>5 DEF Sent, Held, Back
  <2>8. Submitted'
    BY <1>1, <1>2, <1>3, <2>4, <2>7 DEF Submitted
  <2>9. HandsApart'
    BY <1>2, <1>3, <2>4, <2>7 DEF HandsApart
  <2>10. RestApart'
    BY <1>2, <1>3, <2>4, <2>7 DEF RestApart
  <2> QED BY <1>2, <2>6, <2>8, <2>9, <2>10
<1>7. CASE PoolHangsUp
  <2>1. pool'.holds = {} /\ c2s' = c2s /\ s2c' = s2c
    BY <1>0, <1>7 DEF PoolHangsUp
  <2> QED BY <1>1, <2>1, PlacesKept
<1> QED BY <1>4, <1>5, <1>6, <1>7 DEF PoolStep

LEMMA BooksStep ==
    ASSUME Types, Books, [Next]_vars
    PROVE  Books'
<1>1. CASE Dial \/ NetExit
  BY <1>1, PlacesKept DEF Dial, NetExit, client, net, history
<1>2. CASE ConnectFails \/ ResetIds
  BY <1>2, PlacesKept DEF ConnectFails, ResetIds, net, history
<1>3. CASE CloseSocket
  <2>1. UNCHANGED <<stats.submitted, stats.accepted, stats.stale, stats.rejected>>
    BY <1>3 DEF CloseSocket, Types, StatTypes, Verdicts
  <2> QED BY <1>3, <2>1, PlacesKept DEF CloseSocket, history
<1>4. CASE StopFlag \/ StopStep
  BY <1>4, PlacesKept DEF StopFlag, StopStep, StopClose, StopJoin, client, net, history
<1>5. CASE UNCHANGED vars
  BY <1>5, PlacesKept DEF vars, client, control, net, history
<1> QED BY <1>1, <1>2, <1>3, <1>4, <1>5, SendBooks, EnqueueBooks, ConnectBooks, FlushBooks, ReadBooks,
           ResultBooks, PoolBooks DEF Next, NetStep

-----------------------------------------------------------------------------
(* The first session.                                                      *)

LEMMA FirstInit == Init => FirstSession
BY DEF Init, FirstSession, JobFirst, IdsInStep, TagsTrue, TagsThere, FirstSessionTags

\* The tag table and the shares are left alone, and no session is gone back to.
LEMMA TableKept ==
    ASSUME SocketTypes, TagsTrue, TagsThere, FirstSessionTags,
           UNCHANGED <<shares, told, pending_tags>>, sessions' \in {sessions, sessions + 1}
    PROVE  TagsTrue' /\ TagsThere' /\ FirstSessionTags'
<1>1. sessions' <= 1 => sessions <= 1
  BY ThreadFacts DEF SocketTypes
<1>2. Answered' = Answered
  BY DEF Answered
<1> QED BY <1>1, <1>2 DEF TagsTrue, TagsThere, FirstSessionTags

\* A step that concerns neither ids nor jobs, and not the handshake.
LEMMA IdsKept ==
    ASSUME SocketTypes, FirstSession, UNCHANGED <<shares, told, pending_tags, sessions, next_id, job>>,
           \/ npc' = npc
           \/ npc \in {"connect", "dialing"} /\ npc' \in {"connect", "dialing", "done"}
           \/ npc = "flush" /\ npc' = "poll"
           \/ npc = "poll" /\ npc' = "connect"
    PROVE  FirstSession'
<1> USE DEF FirstSession
<1>1. JobFirst'
  BY DEF JobFirst
<1>2. IdsInStep'
  BY DEF IdsInStep
<1> QED BY <1>1, <1>2, TableKept

LEMMA EnqueueFirst ==
    ASSUME Types, Books, FirstSession, NEW t \in Submitters, NEW tag \in Tags, Enqueue(t, tag)
    PROVE  FirstSession'
<1> USE DEF FirstSession
<1> DEFINE n == Len(shares) + 1
           e == [id |-> next_id, tag |-> tag]
           p == <<next_id, tag>>
           grown == Append(pending_tags, p)
<1>0. /\ Len(shares) \in Nat /\ DOMAIN shares = 1 .. Len(shares) /\ sessions \in Nat
      /\ pending_tags \in Seq((Nat \ {0}) \X Tags) /\ Len(pending_tags) \in Nat
      /\ p \in (Nat \ {0}) \X Tags /\ e \in [id : Nat \ {0}, tag : Tags]
      /\ MaxPending \in Nat /\ Evict \in 1 .. MaxPending
  BY ClientAssumption DEF Types, TagTypes, SocketTypes
<1>1. /\ job.session /= 0 /\ UNCHANGED <<job, npc, sessions, told>> /\ next_id' = next_id + 1
      /\ pending_tags' = IF Len(grown) > MaxPending
                         THEN SubSeq(grown, Evict + 1, Len(grown)) ELSE grown
      /\ shares' = Append(shares, e)
  BY DEF Enqueue, net
<1>2. /\ DOMAIN shares' = DOMAIN shares \cup {n} /\ n \notin DOMAIN shares /\ Len(shares') = n
      /\ \A m \in DOMAIN shares : shares'[m] = shares[m]
      /\ shares'[n] = e
  <2>1. shares \in Seq([id : Nat \ {0}, tag : Tags])
    BY DEF Types, TagTypes
  <2> HIDE DEF e
  <2> QED BY <1>0, <1>1, <2>1, AppendFacts
<1>3. /\ DOMAIN grown = DOMAIN pending_tags \cup {Len(pending_tags) + 1}
      /\ \A i \in DOMAIN pending_tags : grown[i] = pending_tags[i]
      /\ grown[Len(pending_tags) + 1] = p
      /\ Len(grown) = Len(pending_tags) + 1 /\ grown \in Seq((Nat \ {0}) \X Tags)
  BY <1>0, AppendFacts
<1>4. sessions /= 0 /\ (sessions <= 1 => sessions = 1 /\ npc /= "handshake")
  BY <1>0, <1>1 DEF JobFirst
<1>5. sessions <= 1 => next_id = n + 2
  BY <1>0, <1>4 DEF IdsInStep
<1>6. JobFirst'
  BY <1>1, <1>4 DEF JobFirst
<1>7. IdsInStep'
  <2>1. sessions <= 1 => next_id' = Len(shares') + 3
    BY <1>0, <1>1, <1>2, <1>5
  <2>2. sessions <= 1 => \A m \in DOMAIN shares' : shares'[m].id = m + 2
    BY <1>2, <1>5 DEF IdsInStep
  <2> QED BY <1>0, <1>1, <2>1, <2>2 DEF IdsInStep
<1> HIDE DEF n, e, p, grown
<1>8. Len(pending_tags) <= Len(shares)
  BY DEF TagsTrue
<1>9. CASE Len(grown) > MaxPending
  <2>1. pending_tags' = SubSeq(grown, Evict + 1, Len(grown))
    BY <1>1, <1>9
  <2>2. /\ Len(pending_tags') = Len(grown) - Evict /\ DOMAIN pending_tags' = 1 .. Len(grown) - Evict
        /\ \A i \in 1 .. Len(grown) - Evict : pending_tags'[i] = grown[Evict + i]
                                              /\ Evict + i \in DOMAIN grown
    <3>1. Len(grown) \in Nat /\ Evict \in Nat \ {0} /\ Evict <= Len(grown)
          /\ DOMAIN grown = 1 .. Len(grown)
      BY <1>0, <1>3, <1>9
    <3>2. /\ Len(SubSeq(grown, Evict + 1, Len(grown))) = Len(grown) - Evict
          /\ DOMAIN SubSeq(grown, Evict + 1, Len(grown)) = 1 .. Len(grown) - Evict
      BY <1>3, <3>1
    <3>3. ASSUME NEW i \in 1 .. Len(grown) - Evict
          PROVE  SubSeq(grown, Evict + 1, Len(grown))[i] = grown[Evict + i] /\ Evict + i \in DOMAIN grown
      <4>1. Evict + i \in 1 .. Len(grown) /\ (Evict + 1) + i - 1 = Evict + i
            /\ i \in 1 .. Len(grown) - (Evict + 1) + 1 /\ Evict + 1 \in Int /\ Len(grown) \in Int
        BY <3>1
      <4>2. SubSeq(grown, Evict + 1, Len(grown))[i] = grown[(Evict + 1) + i - 1]
        BY <1>3, <3>1, <4>1
      <4> QED BY <3>1, <4>1, <4>2
    <3> QED BY <2>1, <3>2, <3>3
  <2>3. Len(shares') > MaxPending
    BY <1>0, <1>2, <1>3, <1>8, <1>9 DEF n
  <2>4. Len(pending_tags') <= Len(shares')
    BY <1>0, <1>2, <1>3, <1>8, <2>2 DEF n
  <2>5. ASSUME sessions <= 1, NEW i \in DOMAIN pending_tags'
        PROVE  \E m \in DOMAIN shares' : pending_tags'[i] = <<shares'[m].id, shares'[m].tag>>
    <3>1. Evict + i \in DOMAIN grown /\ pending_tags'[i] = grown[Evict + i]
      BY <2>2
    <3>2. CASE Evict + i \in DOMAIN pending_tags
      <4>1. PICK m \in DOMAIN shares : pending_tags[Evict + i] = <<shares[m].id, shares[m].tag>>
        BY <2>5, <3>2 DEF TagsTrue
      <4> QED BY <1>2, <1>3, <3>1, <3>2, <4>1
    <3>3. CASE Evict + i = Len(pending_tags) + 1
      BY <1>2, <1>3, <3>1, <3>3 DEF e, p
    <3> QED BY <1>3, <3>1, <3>2, <3>3
  <2>6. TagsTrue'
    BY <1>1, <2>4, <2>5 DEF TagsTrue
  <2>7. TagsThere'
    BY <1>0, <1>2, <2>3 DEF TagsThere, n
  <2>8. FirstSessionTags'
    <3>1. \A q \in told : q[1] \in DOMAIN shares
      BY DEF Books, Submitted, Answered
    <3> QED BY <1>0, <1>1, <1>2, <2>3, <3>1 DEF FirstSessionTags, n
  <2> QED BY <1>6, <1>7, <2>6, <2>7, <2>8
<1>10. CASE ~ (Len(grown) > MaxPending)
  <2>1. pending_tags' = grown
    BY <1>1, <1>10
  <2>2. Len(pending_tags') <= Len(shares')
    BY <1>0, <1>2, <1>3, <1>8, <2>1 DEF n
  <2>3. ASSUME sessions <= 1, NEW i \in DOMAIN grown
        PROVE  \E m \in DOMAIN shares' : grown[i] = <<shares'[m].id, shares'[m].tag>>
    <3>2. CASE i \in DOMAIN pending_tags
      <4>1. PICK m \in DOMAIN shares : pending_tags[i] = <<shares[m].id, shares[m].tag>>
        BY <2>3, <3>2 DEF TagsTrue
      <4> QED BY <1>2, <1>3, <3>2, <4>1
    <3>3. CASE i = Len(pending_tags) + 1
      BY <1>2, <1>3, <3>3 DEF e, p
    <3> QED BY <1>3, <3>2, <3>3
  <2>4. TagsTrue'
    BY <1>1, <2>1, <2>2, <2>3 DEF TagsTrue
  <2>5. Answered' = Answered
    BY <1>1 DEF Answered
  <2>6. ASSUME sessions <= 1, Len(shares') <= MaxPending, NEW m \in DOMAIN shares' \ Answered
        PROVE  \E i \in DOMAIN grown : grown[i][1] = shares'[m].id
    <3>1. CASE m \in DOMAIN shares
      <4>1. Len(shares) <= MaxPending
        BY <1>0, <1>2, <2>6 DEF n
      <4>2. PICK i \in DOMAIN pending_tags : pending_tags[i][1] = shares[m].id
        BY <2>6, <3>1, <4>1 DEF TagsThere
      <4> QED BY <1>2, <1>3, <3>1, <4>2
    <3>2. CASE m = n
      BY <1>2, <1>3, <3>2 DEF e, p
    <3> QED BY <1>2, <2>6, <3>1, <3>2
  <2>7. TagsThere'
    BY <1>1, <2>1, <2>5, <2>6 DEF TagsThere
  <2>8. FirstSessionTags'
    <3>1. \A q \in told : q[1] \in DOMAIN shares
      BY DEF Books, Submitted, Answered
    <3>2. Len(shares) > MaxPending => Len(shares') > MaxPending
      BY <1>0, <1>2 DEF n
    <3> QED BY <1>0, <1>1, <1>2, <3>1, <3>2 DEF FirstSessionTags
  <2> QED BY <1>6, <1>7, <2>4, <2>7, <2>8
<1> QED BY <1>9, <1>10

\* The entry taken from the tag table is that of the share answered, and no
\* other entry is lost.
LEMMA ResultFirst ==
    ASSUME Types, Books, FirstSession, HandleResult
    PROVE  FirstSession'
<1> USE DEF FirstSession
<1> DEFINE n == Head(s2c).share
           i == PendingOf(shares[n].id)
           tag == IF i = 0 THEN 0 ELSE pending_tags[i][2]
<1>1. /\ s2c \in Seq(Lines) /\ s2c /= <<>> /\ Head(s2c).kind \in Verdicts /\ Sound(s2c)
  BY DEF Types, LineTypes, Books, LinesSound, HandleResult
<1>2. n \in Back
  BY <1>1, SharedTail DEF Back
<1>3. n \in DOMAIN shares /\ n \notin Answered
  BY <1>2 DEF Books, RestApart, Submitted
<1>4. /\ told' = told \cup {<<n, tag>>}
      /\ pending_tags' = IF i = 0 THEN pending_tags ELSE RemoveAt(pending_tags, i)
      /\ UNCHANGED <<shares, sessions, job, npc, next_id>>
  BY DEF HandleResult, control
<1>5. \/ i \in DOMAIN pending_tags /\ pending_tags[i][1] = shares[n].id
      \/ i = 0 /\ \A j \in DOMAIN pending_tags : pending_tags[j][1] /= shares[n].id
  BY PendingFound DEF Types
<1>6. tag = IF i = 0 THEN 0 ELSE pending_tags[i][2]
  OBVIOUS
<1> HIDE DEF n, i, tag
<1>7. JobFirst' /\ IdsInStep'
  BY <1>4 DEF JobFirst, IdsInStep
<1>8. Len(shares) \in Nat /\ Len(pending_tags) \in Nat /\ MaxPending \in Nat /\ sessions \in Nat
      /\ pending_tags \in Seq((Nat \ {0}) \X Tags) /\ DOMAIN shares \subseteq Nat
      /\ \A j \in DOMAIN pending_tags : j /= 0
  BY ThreadFacts DEF Types, TagTypes, SocketTypes
<1>9. Answered \subseteq Answered'
  BY <1>4 DEF Answered
<1>10. n \in Answered'
  <2>1. <<n, tag>> \in told' /\ <<n, tag>>[1] = n
    BY <1>4
  <2> QED BY <2>1, Zenon DEF Answered
<1>11. sessions <= 1 => \A m \in DOMAIN shares : shares[m].id = shares[n].id => m = n
  BY <1>3, <1>8 DEF IdsInStep
<1>12. TagsTrue' /\ TagsThere'
  <2>1. CASE i = 0
    BY <1>4, <1>9, <2>1 DEF TagsTrue, TagsThere
  <2>2. CASE i \in DOMAIN pending_tags
    <3> DEFINE r == RemoveAt(pending_tags, i)
    <3>1. /\ Len(r) = Len(pending_tags) - 1
          /\ \A j \in DOMAIN r : \E k \in DOMAIN pending_tags : r[j] = pending_tags[k]
          /\ \A k \in DOMAIN pending_tags \ {i} : \E j \in DOMAIN r : r[j] = pending_tags[k]
      BY <1>8, <2>2, Removed
    <3>2. pending_tags' = r
      BY <1>4, <1>8, <2>2
    <3> HIDE DEF r
    <3>3. Len(r) <= Len(shares)
      BY <1>8, <3>1 DEF TagsTrue
    <3>4. ASSUME sessions <= 1, NEW j \in DOMAIN r
          PROVE  \E m \in DOMAIN shares : r[j] = <<shares[m].id, shares[m].tag>>
      BY <3>1, <3>4 DEF TagsTrue
    <3>5. TagsTrue'
      BY <1>4, <3>2, <3>3, <3>4 DEF TagsTrue
    <3>6. ASSUME sessions <= 1, Len(shares) <= MaxPending, NEW m \in DOMAIN shares \ Answered'
          PROVE  \E j \in DOMAIN r : r[j][1] = shares[m].id
      <4>1. m \in DOMAIN shares \ Answered /\ m /= n
        BY <1>9, <1>10
      <4>2. PICK k \in DOMAIN pending_tags : pending_tags[k][1] = shares[m].id
        BY <3>6, <4>1 DEF TagsThere
      <4>3. k /= i
        BY <1>5, <1>8, <1>11, <2>2, <3>6, <4>1, <4>2
      <4>4. PICK j \in DOMAIN r : r[j] = pending_tags[k]
        BY <3>1, <4>3
      <4> QED BY <4>2, <4>4
    <3>7. TagsThere'
      BY <1>4, <3>2, <3>6 DEF TagsThere
    <3> QED BY <3>5, <3>7
  <2> QED BY <1>5, <2>1, <2>2
<1>13. FirstSessionTags'
  <2>1. ASSUME sessions <= 1
        PROVE  tag = shares[n].tag \/ (tag = 0 /\ Len(shares) > MaxPending)
    <3>1. CASE i = 0
      <4>1. ~ (Len(shares) <= MaxPending)
        BY <1>3, <1>5, <1>8, <2>1, <3>1 DEF TagsThere
      <4> QED BY <1>6, <1>8, <3>1, <4>1
    <3>2. CASE i \in DOMAIN pending_tags
      <4>1. PICK m \in DOMAIN shares : pending_tags[i] = <<shares[m].id, shares[m].tag>>
        BY <2>1, <3>2 DEF TagsTrue
      <4>2. m = n
        BY <1>5, <1>8, <1>11, <2>1, <3>2, <4>1
      <4>3. pending_tags[i][2] = shares[n].tag
        BY <4>1, <4>2
      <4> QED BY <1>6, <1>8, <3>2, <4>3
    <3> QED BY <1>5, <3>1, <3>2
  <2>2. \A q \in told' : q \in told \/ (q[1] = n /\ q[2] = tag)
    BY <1>4
  <2> QED BY <1>4, <2>1, <2>2 DEF FirstSessionTags
<1> QED BY <1>7, <1>12, <1>13

LEMMA FirstStep ==
    ASSUME Types, Books, FirstSession, [Next]_vars
    PROVE  FirstSession'
<1>0. SocketTypes /\ sessions \in Nat
  BY ThreadFacts DEF Types, SocketTypes
<1>1. ASSUME NEW t \in Threads, SendBegin(t) \/ SendEnd(t)
      PROVE  FirstSession'
  BY <1>0, <1>1, IdsKept DEF SendBegin, SendEnd, client, net, history
<1>2. CASE Dial \/ NetExit
  BY <1>0, <1>2, IdsKept DEF Dial, NetExit, client, net, history
<1>3. CASE ConnectOk
  <2>1. /\ sessions' = sessions + 1 /\ npc' = "handshake"
        /\ UNCHANGED <<shares, told, pending_tags, next_id, job>>
    BY <1>3 DEF ConnectOk, history
  <2>2. TagsTrue' /\ TagsThere' /\ FirstSessionTags'
    BY <1>0, <2>1, TableKept DEF FirstSession
  <2>3. JobFirst'
    BY <1>0, <2>1 DEF FirstSession, JobFirst
  <2>4. IdsInStep'
    BY <1>0, <2>1 DEF FirstSession, IdsInStep
  <2> QED BY <2>2, <2>3, <2>4 DEF FirstSession
<1>4. CASE ConnectFails
  BY <1>0, <1>4, IdsKept DEF ConnectFails, net, history
<1>5. CASE ResetIds
  <2>1. /\ npc = "handshake" /\ npc' = "flush" /\ next_id' = 3
        /\ UNCHANGED <<shares, told, pending_tags, sessions, job>>
    BY <1>5 DEF ResetIds, net, history
  <2>2. TagsTrue' /\ TagsThere' /\ FirstSessionTags'
    BY <1>0, <2>1, TableKept DEF FirstSession
  <2>3. sessions = 1 => shares = <<>>
    BY <2>1 DEF FirstSession, JobFirst
  <2>4. JobFirst' /\ IdsInStep'
    BY <1>0, <2>1, <2>3 DEF FirstSession, JobFirst, IdsInStep
  <2> QED BY <2>2, <2>4 DEF FirstSession
<1>6. CASE Flush
  BY <1>0, <1>6, IdsKept DEF Flush, net, history
<1>7. CASE HandleTarget
  BY <1>0, <1>7, IdsKept DEF HandleTarget, control, history
<1>8. CASE HandleNotify
  <2>1. /\ npc = "poll" /\ job'.session = sessions
        /\ UNCHANGED <<shares, told, pending_tags, sessions, next_id, npc>>
    BY <1>8 DEF HandleNotify, Polling, control, history
  <2>2. TagsTrue' /\ TagsThere' /\ FirstSessionTags'
    BY <1>0, <2>1, TableKept DEF FirstSession
  <2>3. JobFirst' /\ IdsInStep'
    BY <1>0, <2>1 DEF FirstSession, JobFirst, IdsInStep
  <2> QED BY <2>2, <2>3 DEF FirstSession
<1>9. CASE HandlePing
  BY <1>0, <1>9, IdsKept DEF HandlePing, client, history
<1>10. CASE CloseSocket
  BY <1>0, <1>10, IdsKept DEF CloseSocket, Polling, history
<1>11. CASE StopFlag \/ StopStep
  BY <1>0, <1>11, IdsKept DEF StopFlag, StopStep, StopClose, StopJoin, client, net, history
<1>12. CASE PoolStep
  BY <1>0, <1>12, IdsKept DEF PoolStep, PoolRead, PoolAnnounce, PoolAnswer, PoolHangsUp, client,
                              control, history
<1>13. CASE UNCHANGED vars
  BY <1>0, <1>13, IdsKept DEF vars, client, control, net, history
<1> QED BY <1>1, <1>2, <1>3, <1>4, <1>5, <1>6, <1>7, <1>8, <1>9, <1>10, <1>11, <1>12, <1>13,
           EnqueueFirst, ResultFirst DEF Next, NetStep

-----------------------------------------------------------------------------
(* What the invariant gives.                                               *)

LEMMA PlacesDiffer ==
    ASSUME Types, Books
    PROVE  NeverTwice
<1> SUFFICES ASSUME NEW n \in DOMAIN shares, NEW p \in Places(n), NEW q \in Places(n)
             PROVE  p = q
  BY DEF NeverTwice
<1>0. n /= 0
  BY DEF Types, TagTypes
\* The kinds of places, each with what it says of n.
<1> DEFINE InHand(x, t) == \E i \in DOMAIN todo[t] : todo[t][i].share = n /\ x = <<t, i>>
           InSeq(x, k, s) == \E i \in DOMAIN s : s[i].share = n /\ x = <<k, i>>
           AtPool(x) == n \in Held /\ x = <<"pool", n>>
           WasTold(x) == \E r \in told : r[1] = n /\ x = <<"told", r[2]>>
<1>1. ASSUME NEW x \in Places(n)
      PROVE  \/ \E t \in Threads : InHand(x, t)
             \/ InSeq(x, "outq", outq) \/ InSeq(x, "c2s", c2s) \/ InSeq(x, "s2c", s2c)
             \/ AtPool(x) \/ WasTold(x)
  <2> DEFINE At(place, s) == {<<place, i>> : i \in {j \in DOMAIN s : s[j].share = n}}
  <2>1. \/ \E t \in Threads : x \in At(t, todo[t])
        \/ x \in At("outq", outq) \/ x \in At("c2s", c2s) \/ x \in At("s2c", s2c)
        \/ x \in {<<"pool", m>> : m \in {n} \cap pool.holds}
        \/ x \in {<<"told", r[2]>> : r \in {r \in told : r[1] = n}}
    <3> DEFINE T == UNION {At(t, todo[t]) : t \in Threads}
               O == At("outq", outq)
               C == At("c2s", c2s)
               S == At("s2c", s2c)
               H == {<<"pool", m>> : m \in {n} \cap pool.holds}
               R == {<<"told", r[2]>> : r \in {r \in told : r[1] = n}}
    <3>1. Places(n) = T \cup O \cup C \cup S \cup H \cup R
      BY DEF Places
    <3>2. x \in T => \E t \in Threads : x \in At(t, todo[t])
      <4> HIDE DEF At
      <4> QED BY Zenon
    <3> HIDE DEF At, T, O, C, S, H, R
    <3>3. x \in T \/ x \in O \/ x \in C \/ x \in S \/ x \in H \/ x \in R
      BY <3>1
    <3> QED BY <3>2, <3>3 DEF O, C, S, H, R
  <2>2. \A k, s : x \in At(k, s) => InSeq(x, k, s)
    BY Zenon
  <2>3. \A t \in Threads : x \in At(t, todo[t]) => InHand(x, t)
    BY Zenon
  <2>4. x \in {<<"pool", m>> : m \in {n} \cap pool.holds} => AtPool(x)
    BY Zenon DEF Held
  <2>5. x \in {<<"told", r[2]>> : r \in {r \in told : r[1] = n}} => WasTold(x)
    BY Zenon
  <2> HIDE DEF At, InHand, InSeq, AtPool, WasTold
  <2> QED BY <2>1, <2>2, <2>3, <2>4, <2>5, Zenon
<1>2. \A x : /\ \A t \in Threads : InHand(x, t) => n \in Hands(t)
             /\ InSeq(x, "outq", outq) => n \in Queued
             /\ InSeq(x, "c2s", c2s) => n \in Sent
             /\ InSeq(x, "s2c", s2c) => n \in Back
             /\ AtPool(x) => n \in Held
             /\ WasTold(x) => n \in Answered
  BY <1>0 DEF Hands, Queued, Sent, Back, Answered, Shared
\* In one place it is there once.
<1>3. ASSUME NEW t \in Threads, InHand(p, t), InHand(q, t)
      PROVE  p = q
  BY <1>0, <1>3 DEF Books, LinesSound, Sound, Once
<1>4. ASSUME NEW k, NEW s, Once(s), InSeq(p, k, s), InSeq(q, k, s)
      PROVE  p = q
  BY <1>0, <1>4 DEF Once
<1>5. Once(outq) /\ Once(c2s) /\ Once(s2c)
  BY DEF Books, LinesSound, Sound
<1>6. WasTold(p) /\ WasTold(q) => p = q
  BY DEF Books, ToldOnce
<1>7. AtPool(p) /\ AtPool(q) => p = q
  OBVIOUS
<1> HIDE DEF InHand, InSeq, AtPool, WasTold
<1>8. CASE \E t \in Threads : InHand(p, t)
  <2>1. PICK t \in Threads : InHand(p, t)
    BY <1>8
  <2>2. n \in Hands(t)
    BY <1>2, <2>1
  <2>3. /\ n \notin Queued /\ n \notin Sent /\ n \notin Back /\ n \notin Held /\ n \notin Answered
        /\ \A u \in Threads : n \in Hands(u) => u = t
    BY <2>2 DEF Books, HandsApart
  <2> QED BY <1>1, <1>2, <1>3, <2>1, <2>3
<1>9. CASE ~ \E t \in Threads : InHand(p, t)
  <2>1. /\ ~ \E t \in Threads : InHand(q, t)
    BY <1>1, <1>2, <1>9 DEF Books, HandsApart
  <2> QED BY <1>1, <1>2, <1>4, <1>5, <1>6, <1>7, <1>9, <2>1 DEF Books, RestApart
<1> QED BY <1>8, <1>9

LEMMA BooksBalance ==
    ASSUME Types, Books
    PROVE  AnswersWithinSubmitted
<1>1. Len(shares) \in Nat /\ DOMAIN shares = 1 .. Len(shares)
  BY DEF Types, TagTypes
<1>2. IsFiniteSet(1 .. Len(shares)) /\ Cardinality(1 .. Len(shares)) = Len(shares)
  <2>1. 1 \in Int /\ Len(shares) \in Int /\ Len(shares) - 1 + 1 = Len(shares)
    BY <1>1
  <2>2. /\ IsFiniteSet(1 .. Len(shares))
        /\ Cardinality(1 .. Len(shares)) = IF 1 > Len(shares) THEN 0 ELSE Len(shares) - 1 + 1
    BY <2>1, FS_Interval
  <2> QED BY <1>1, <2>1, <2>2
<1>3. Answered \subseteq 1 .. Len(shares)
  BY <1>1 DEF Books, Submitted
<1>4. Cardinality(Answered) <= Len(shares)
  BY <1>2, <1>3, FS_Subset
<1> QED BY <1>4 DEF AnswersWithinSubmitted, Books, Counts

-----------------------------------------------------------------------------
(* The invariant always holds: every step keeps the types, a session's order *)
(* and the books, and with the books right the tags of the first session.    *)
THEOREM ClientInvariance == Spec => []Inv
<1>1. Init => Inv
  BY TypesInit, SessionsInit, BooksInit, FirstInit DEF Inv
<1>2. Inv /\ [Next]_vars => Inv'
  BY TypesStep, SessionsStep, BooksStep, FirstStep DEF Inv
<1> QED BY <1>1, <1>2, PTL DEF Spec

(* However submits, answers and reconnects interleave, submit and send_line  *)
(* never send a share twice and handle_line never counts one twice or counts *)
(* more than were submitted; and until ids start again in a second session   *)
(* the tag that on_submit_result gets is that of its share, or 0 once        *)
(* pending_tags_ has overflowed.                                             *)
THEOREM SharesAlwaysAccounted == Spec => []SharesAccounted
<1>1. Inv => SharesAccounted
  BY TypesGiveTypeOK, PlacesDiffer, BooksBalance DEF Inv, FirstSession, SharesAccounted
<1> QED BY <1>1, ClientInvariance, PTL

(* Whenever the pools hang up and stop() comes, a job is mined with the      *)
(* target of the session that sent it, because connect_once clears rxbuf_    *)
(* and a pool sends a target before a job; and run() ends without a socket.  *)
THEOREM SessionsAlwaysClean == Spec => []SessionsAreClean
<1>1. Inv => SessionsAreClean
  BY DEF Inv, Sessions, NoSession, SessionsAreClean, JobHasItsPoolsTarget, NoSocketLeftOpen
<1> QED BY <1>1, ClientInvariance, PTL
=============================================================================
