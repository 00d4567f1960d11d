--------------------------- MODULE StratumClient ---------------------------
(***************************************************************************)
(* StratumClient (src/src/stratum.cpp): one network thread that connects,  *)
(* logs in, reads and reconnects; submitter threads that write shares to   *)
(* the same socket; the main thread that stops it all; and, as external    *)
(* parties, the pools and the TCP connection to the current one.           *)
(*                                                                         *)
(* Every action is one critical section of mtx_.  send_line is two: it     *)
(* keeps mtx_ while send blocks on a full connection.  A line is its kind  *)
(* and, for a submit or its result, the number of the share.  Backoff and  *)
(* sleeps are left to the scheduler; lines arrive whole.                   *)
(***************************************************************************)
EXTENDS Naturals, Sequences, SequencesExt

CONSTANTS
    Submitters,     \* threads that call submit
    Net,            \* the network thread
    None,           \* nobody holds mtx_ across a send
    NPools,         \* how many -o pools are configured
    Down,           \* the pools (0 .. NPools-1) that refuse every connection
    Tags,           \* GPU indices a share can be tagged with
    MaxShares,      \* bound: shares submitted
    MaxSessions,    \* bound: connections made
    WireCap,        \* lines the connection takes before send blocks
    MaxPending,     \* 4096: pending_tags_ larger than this ...
    Evict           \* 2048: ... loses this many of its oldest entries

Threads == Submitters \cup {Net}

ASSUME ClientAssumption ==
    /\ Net \notin Submitters /\ None \notin Threads
    /\ NPools \in Nat \ {0} /\ Down \subseteq 0 .. NPools - 1
    /\ Tags \subseteq Nat
    /\ MaxShares \in Nat /\ MaxSessions \in Nat /\ WireCap \in Nat \ {0}
    /\ MaxPending \in Nat /\ Evict \in 1 .. MaxPending

VARIABLES
    running,        \* running_
    fd,             \* fd_: the number of the session, 0 when invalid
    pool_idx,       \* pool_idx_ modulo the number of pools
    next_id,        \* next_id_
    outq,           \* outq_
    pending_tags,   \* pending_tags_: <<id, tag>> pairs
    share_target,   \* share_target_: the session that set it, 0 when empty
    job,            \* the job handed to on_job: its session and its target
    stats,          \* stats_
    npc,            \* where the network thread is
    todo,           \* todo[t]: lines thread t still has to pass to send_line
    writing,        \* the thread that holds mtx_ inside send, or None
    main,           \* how far the main thread is with stop()
    alive,          \* external: the peer still holds the connection
    c2s, s2c,       \* external: lines on their way to and from the pool
    pool,           \* external: what the pool knows of the session
    sessions,       \* number of connections made so far
    shares,         \* history: id and tag of every submitted share
    told            \* history: <<share, tag>> of every on_submit_result

client == <<running, fd, pool_idx, next_id, outq, pending_tags, share_target, job, stats>>
control == <<npc, todo, writing, main>>
net == <<alive, c2s, s2c, pool, sessions>>
history == <<shares, told>>
vars == <<client, control, net, history>>

Line(kind, n) == [kind |-> kind, share |-> n]
Submit(n) == Line("submit", n)
NewPool == [authed |-> FALSE, announced |-> 0, holds |-> {}]
Verdicts == {"accepted", "stale", "rejected"}

Init ==
    /\ running = TRUE /\ fd = 0 /\ pool_idx = 0 /\ next_id = 1
    /\ outq = <<>> /\ pending_tags = <<>>
    /\ share_target = 0 /\ job = [session |-> 0, target |-> 0]
    /\ stats = [submitted |-> 0, accepted |-> 0, stale |-> 0, rejected |-> 0, reconnects |-> 0]
    /\ npc = "connect" /\ todo = [t \in Threads |-> <<>>]
    /\ writing = None /\ main = "run"
    /\ alive = FALSE /\ c2s = <<>> /\ s2c = <<>> /\ pool = NewPool /\ sessions = 0
    /\ shares = <<>> /\ told = {}

LockFree == writing = None

-----------------------------------------------------------------------------
(* send_line, by whichever thread calls it.                                *)

\* It takes mtx_.  Without a socket the line is queued; with one, send runs
\* with mtx_ held.
SendBegin(t) ==
    /\ LockFree
    /\ todo[t] # <<>>
    /\ IF fd = 0
       THEN /\ outq' = Append(outq, Head(todo[t]))
            /\ todo' = [todo EXCEPT ![t] = Tail(@)]
            /\ UNCHANGED writing
       ELSE /\ writing' = t
            /\ UNCHANGED <<outq, todo>>
    /\ UNCHANGED <<running, fd, pool_idx, next_id, pending_tags, share_target, job, stats,
                   npc, main, net, history>>

\* send takes the line when the connection has room.  On a dead connection it
\* fails and the line is gone: it is not queued again.
SendEnd(t) ==
    /\ writing = t
    /\ \/ alive /\ Len(c2s) < WireCap /\ c2s' = Append(c2s, Head(todo[t]))
       \/ ~alive /\ UNCHANGED c2s
    /\ writing' = None
    /\ todo' = [todo EXCEPT ![t] = Tail(@)]
    /\ UNCHANGED <<client, npc, main, alive, s2c, pool, sessions, history>>

-----------------------------------------------------------------------------
(* submit, by a submitter thread that has a share for a job.               *)

\* stats_.submitted counts every share.
Counted == stats.submitted + 1

\* The first critical section: an id, the counter and the tag table.
Enqueue(t, tag) ==
    LET grown == Append(pending_tags, <<next_id, tag>>)
    IN /\ LockFree
       /\ main = "run" /\ job.session # 0 /\ todo[t] = <<>>
       /\ Len(shares) < MaxShares
       /\ next_id' = next_id + 1
       /\ stats' = [stats EXCEPT !.submitted = Counted]
       /\ pending_tags' = IF Len(grown) > MaxPending
                          THEN SubSeq(grown, Evict + 1, Len(grown)) ELSE grown
       /\ shares' = Append(shares, [id |-> next_id, tag |-> tag])
       /\ todo' = [todo EXCEPT ![t] = <<Submit(Len(shares) + 1)>>]
       /\ UNCHANGED <<running, fd, pool_idx, outq, share_target, job, npc, writing, main,
                      net, told>>

-----------------------------------------------------------------------------
(* The network thread, run().                                              *)

\* The outer loop tests running_ and then tries a pool; stop() may come while
\* connect_once is at it.
Dial ==
    /\ npc = "connect" /\ running
    /\ npc' = "dialing"
    /\ UNCHANGED <<client, todo, writing, main, net, history>>

NetExit ==
    /\ npc = "connect" /\ ~running
    /\ npc' = "done"
    /\ UNCHANGED <<client, todo, writing, main, net, history>>

\* rxbuf_ is cleared for the new session.  Mutation: it is not.
InputKept == s2c
InputAtConnect == <<>>

\* connect_once succeeded: a new session.
ConnectOk ==
    /\ npc = "dialing" /\ LockFree
    /\ pool_idx \notin Down /\ sessions < MaxSessions
    /\ sessions' = sessions + 1
    /\ fd' = sessions + 1
    /\ alive' = TRUE /\ c2s' = <<>> /\ s2c' = InputAtConnect /\ pool' = NewPool
    /\ npc' = "handshake"
    /\ todo' = [todo EXCEPT ![Net] = <<Line("subscribe", 0), Line("authorize", 0)>>]
    /\ UNCHANGED <<running, pool_idx, next_id, outq, pending_tags, share_target, job, stats,
                   writing, main, history>>

NextPool == (pool_idx + 1) % NPools

\* connect_once failed: on to the next pool.
ConnectFails ==
    /\ npc = "dialing"
    /\ pool_idx \in Down
    /\ pool_idx' = NextPool
    /\ npc' = "connect"
    /\ UNCHANGED <<running, fd, next_id, outq, pending_tags, share_target, job, stats,
                   todo, writing, main, net, history>>

\* The last line of handshake.
ResetIds ==
    /\ npc = "handshake" /\ todo[Net] = <<>> /\ LockFree
    /\ next_id' = 3
    /\ npc' = "flush"
    /\ UNCHANGED <<running, fd, pool_idx, outq, pending_tags, share_target, job, stats,
                   todo, writing, main, net, history>>

\* q.swap(outq_): what is taken and what stays.  Mutations: one line is taken;
\* the queue is copied.
TakenFirst == IF outq = <<>> THEN outq ELSE SubSeq(outq, 1, 1)
Taken == outq
LeftCopied == outq
Left == SubSeq(outq, Len(Taken) + 1, Len(outq))

\* What was queued while disconnected moves to the network thread.
Flush ==
    /\ npc = "flush" /\ LockFree
    /\ todo' = [todo EXCEPT ![Net] = Taken]
    /\ outq' = Left
    /\ npc' = "poll"
    /\ UNCHANGED <<running, fd, pool_idx, next_id, pending_tags, share_target, job, stats,
                   writing, main, net, history>>

Polling == npc = "poll" /\ todo[Net] = <<>> /\ LockFree

\* A received line, handled by handle_line.  The lines of one chunk are handled
\* without a look at running_ or fd_, so stop() may already have closed it.
HandleTarget ==
    /\ Polling /\ s2c # <<>>
    /\ Head(s2c).kind = "target"
    /\ share_target' = sessions
    /\ s2c' = Tail(s2c)
    /\ UNCHANGED <<running, fd, pool_idx, next_id, outq, pending_tags, job, stats,
                   control, alive, c2s, pool, sessions, history>>

HandleNotify ==
    /\ Polling /\ s2c # <<>>
    /\ Head(s2c).kind = "notify"
    /\ job' = [session |-> sessions, target |-> share_target]
    /\ s2c' = Tail(s2c)
    /\ UNCHANGED <<running, fd, pool_idx, next_id, outq, pending_tags, share_target, stats,
                   control, alive, c2s, pool, sessions, history>>

HandlePing ==
    /\ Polling /\ s2c # <<>>
    /\ Head(s2c).kind = "ping"
    /\ todo' = [todo EXCEPT ![Net] = <<Line("pong", 0)>>]
    /\ s2c' = Tail(s2c)
    /\ UNCHANGED <<client, npc, writing, main, alive, c2s, pool, sessions, history>>

\* Where the tag of answer id is: the first pending entry with that id, 0 when
\* there is none.
PendingOf(id) == SelectInSeq(pending_tags, LAMBDA p : p[1] = id)

\* A share result: the verdict is counted, the tag looked up and handed on.
HandleResult ==
    LET r == Head(s2c)
        i == PendingOf(shares[r.share].id)
        tag == IF i = 0 THEN 0 ELSE pending_tags[i][2]
    IN /\ Polling /\ s2c # <<>>
       /\ r.kind \in Verdicts
       /\ stats' = [stats EXCEPT ![r.kind] = @ + 1]
       /\ pending_tags' = IF i = 0 THEN pending_tags ELSE RemoveAt(pending_tags, i)
       /\ told' = told \cup {<<r.share, tag>>}
       /\ s2c' = Tail(s2c)
       /\ UNCHANGED <<running, fd, pool_idx, next_id, outq, share_target, job,
                      control, alive, c2s, pool, sessions, shares>>

\* The inner loop ends: the peer hung up, stop() closed the socket, or
\* running_ is false.
LoopEnds == ~running \/ fd = 0 \/ ~alive

FdClosed == 0

\* close_socket, and back to the outer loop.
CloseSocket ==
    /\ Polling
    /\ LoopEnds
    /\ fd' = FdClosed
    /\ alive' = FALSE
    /\ stats' = IF running THEN [stats EXCEPT !.reconnects = @ + 1] ELSE stats
    /\ npc' = "connect"
    /\ UNCHANGED <<running, pool_idx, next_id, outq, pending_tags, share_target, job,
                   todo, writing, main, c2s, s2c, pool, sessions, history>>

NetStep ==
    \/ Dial \/ ConnectOk \/ ConnectFails \/ ResetIds \/ Flush \/ HandleTarget \/ HandleNotify
    \/ HandlePing \/ HandleResult \/ CloseSocket \/ NetExit

-----------------------------------------------------------------------------
(* stop(), called by the main thread once the submitters are done.         *)

StopFlag ==
    /\ main = "run"
    /\ \A t \in Submitters : todo[t] = <<>>
    /\ running' = FALSE
    /\ main' = "closing"
    /\ UNCHANGED <<fd, pool_idx, next_id, outq, pending_tags, share_target, job, stats,
                   npc, todo, writing, net, history>>

StopClose ==
    /\ main = "closing" /\ LockFree
    /\ fd' = 0
    /\ alive' = FALSE
    /\ main' = "joining"
    /\ UNCHANGED <<running, pool_idx, next_id, outq, pending_tags, share_target, job, stats,
                   npc, todo, writing, c2s, s2c, pool, sessions, history>>

StopJoin ==
    /\ main = "joining" /\ npc = "done"
    /\ main' = "stopped"
    /\ UNCHANGED <<client, npc, todo, writing, net, history>>

StopStep == StopClose \/ StopJoin

-----------------------------------------------------------------------------
(* The pool, external.  It reads lines in order, announces a target, then  *)
(* a job, then a ping to a miner that has authorized, answers each submit  *)
(* it has read at most once, in any order, and may hang up.                *)

PoolRead ==
    /\ alive /\ c2s # <<>>
    /\ pool' = [pool EXCEPT
                 !.authed = @ \/ Head(c2s).kind = "authorize",
                 !.holds = IF Head(c2s).kind = "submit" THEN @ \cup {Head(c2s).share} ELSE @]
    /\ c2s' = Tail(c2s)
    /\ UNCHANGED <<client, control, alive, s2c, sessions, history>>

Announcements == <<"target", "notify", "ping">>

PoolAnnounce ==
    /\ alive /\ pool.authed /\ pool.announced < Len(Announcements)
    /\ s2c' = Append(s2c, Line(Announcements[pool.announced + 1], 0))
    /\ pool' = [pool EXCEPT !.announced = @ + 1]
    /\ UNCHANGED <<client, control, alive, c2s, sessions, history>>

PoolAnswer(n, v) ==
    /\ alive
    /\ s2c' = Append(s2c, Line(v, n))
    /\ pool' = [pool EXCEPT !.holds = @ \ {n}]
    /\ UNCHANGED <<client, control, alive, c2s, sessions, history>>

\* The last session of the bound is left up.
PoolHangsUp ==
    /\ alive /\ sessions < MaxSessions
    /\ alive' = FALSE
    /\ pool' = [pool EXCEPT !.holds = {}]
    /\ UNCHANGED <<client, control, c2s, s2c, sessions, history>>

PoolStep ==
    \/ PoolRead \/ PoolAnnounce \/ PoolHangsUp
    \/ \E n \in pool.holds, v \in Verdicts : PoolAnswer(n, v)

-----------------------------------------------------------------------------
Next ==
    \/ \E t \in Threads : SendBegin(t) \/ SendEnd(t)
    \/ \E t \in Submitters, tag \in Tags : Enqueue(t, tag)
    \/ NetStep
    \/ StopFlag
    \/ StopStep
    \/ PoolStep

Spec == Init /\ [][Next]_vars

\* The client's threads are scheduled.
ClientFairness ==
    /\ WF_vars(NetStep)
    /\ WF_vars(StopStep)
    /\ \A t \in Threads : WF_vars(SendBegin(t)) /\ WF_vars(SendEnd(t))

\* Nothing is assumed of the pool ...
ClientSpec == Spec /\ ClientFairness

\* ... or that it goes on reading its end of the connection.
FairSpec == ClientSpec /\ WF_vars(PoolRead)

-----------------------------------------------------------------------------
(* Properties.                                                             *)

Lines == [kind : {"subscribe", "authorize", "submit", "pong", "target", "notify", "ping"}
                 \cup Verdicts, share : 0 .. MaxShares]

TypeOK ==
    /\ running \in BOOLEAN /\ alive \in BOOLEAN
    /\ fd \in 0 .. MaxSessions /\ sessions \in 0 .. MaxSessions
    /\ pool_idx \in 0 .. NPools - 1
    /\ next_id \in Nat \ {0}
    /\ outq \in Seq(Lines) /\ c2s \in Seq(Lines) /\ s2c \in Seq(Lines)
    /\ pending_tags \in Seq((Nat \ {0}) \X Tags)
    /\ share_target \in 0 .. MaxSessions
    /\ job \in [session : 0 .. MaxSessions, target : 0 .. MaxSessions]
    /\ stats \in [{"submitted", "reconnects"} \cup Verdicts -> Nat]
    /\ npc \in {"connect", "dialing", "handshake", "flush", "poll", "done"}
    /\ todo \in [Threads -> Seq(Lines)]
    /\ writing \in Threads \cup {None}
    /\ main \in {"run", "closing", "joining", "stopped"}
    /\ pool \in [authed : BOOLEAN, announced : 0 .. Len(Announcements),
                  holds : SUBSET (1 .. MaxShares)]
    /\ shares \in Seq([id : Nat \ {0}, tag : Tags])
    /\ told \subseteq (1 .. MaxShares) \X (Tags \cup {0})

\* Where share n is: in a thread's hands, queued, on the wire, with the pool, on
\* its way back as a result, or resolved.
Places(n) ==
    LET In(place, s) == {<<place, i>> : i \in {j \in DOMAIN s : s[j].share = n}}
    IN (UNION {In(t, todo[t]) : t \in Threads})
       \cup In("outq", outq) \cup In("c2s", c2s) \cup In("s2c", s2c)
       \cup {<<"pool", m>> : m \in {n} \cap pool.holds}
       \cup {<<"told", p[2]>> : p \in {q \in told : q[1] = n}}

\* No share is ever sent to a pool twice or answered twice: the queue that
\* bridges a disconnect neither repeats a line nor races send_line into
\* sending one that is queued as well.
NeverTwice == \A n \in DOMAIN shares : \A p, q \in Places(n) : p = q

\* The shutdown wait (accepted + rejected + stale >= submitted) can be satisfied
\* only by real answers: there are never more answers than submitted shares.
AnswersWithinSubmitted ==
    stats.accepted + stats.stale + stats.rejected <= stats.submitted

\* A job is mined with the share target of the pool that sent it, also after a
\* failover to another pool.
JobHasItsPoolsTarget == job.target = job.session

\* When the network thread has ended no socket is left open, even if stop() came
\* while a connection was being made.
NoSocketLeftOpen == npc = "done" => fd = 0

\* Until the first reconnect every result comes back with the tag its share was
\* submitted with (or 0, once more shares were pending than the table keeps:
\* which is GPU 0's tag as well), in whatever order the pool answers.
FirstSessionTags ==
    sessions <= 1 =>
        \A p \in told : p[2] = shares[p[1]].tag \/ (p[2] = 0 /\ Len(shares) > MaxPending)

\* stop() returns, wherever the network thread is when it is called.
StopReturns == (main = "closing") ~> (main = "stopped")

\* Shares queued while the miner was disconnected do not stay behind.
QueuedSharesLeave == (outq # <<>>) ~> (outq = <<>> \/ ~running)

\* A rig survives a pool that is down: it always gets connected again.
ServedAgain == []<>(fd # 0 \/ ~running)

\* The books on shares are right over submits, answers and reconnects in any order:
\* none is sent or answered twice, no answer is counted that was not asked for, and
\* until the first reconnect each comes back with the tag of its share.
SharesAccounted == TypeOK /\ NeverTwice /\ AnswersWithinSubmitted /\ FirstSessionTags

\* Nothing of an old session is left in a new one: a job is mined with the target of
\* the pool that sent it, and an ended client holds no socket.
SessionsAreClean == JobHasItsPoolsTarget /\ NoSocketLeftOpen

\* The client keeps going and stops when told to: it gets connected again, queued
\* shares leave, and stop() returns wherever the network thread is.  All of it as
\* long as the pool reads what it is sent: submit writes with the mutex held and,
\* whatever its header says, blocks without that.
ClientLives == StopReturns /\ QueuedSharesLeave /\ ServedAgain
=============================================================================
