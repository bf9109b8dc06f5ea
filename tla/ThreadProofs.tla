----------------------------- MODULE ThreadProofs -----------------------------
(***************************************************************************)
(* Proofs about the threads of the server: how they wait for messages, and *)
(* how they are started and stopped.                                       *)
(*                                                                         *)
(* 1. The waitset of a queue names no id nobody waits for, for any number  *)
(* of threads, messages and ids.  An id joins the waitset with a thread,   *)
(* and a thread stops waiting for its id in two ways only: its wait        *)
(* expires, and takes the id with it though other threads may want it too, *)
(* or it is woken to find the id gone.  The other steps leave the waiting  *)
(* threads waiting.  The types need one more fact to be inductive: only a  *)
(* thread that wants an id, and not any message, comes to where it puts    *)
(* what it wants in the waitset.                                           *)
(*                                                                         *)
(* 2. No session in the registry is being destroyed, the array of the      *)
(* forwarding threads is freed only when they have ended, and the mutex of *)
(* the log is held exactly between its two calls, for any number of        *)
(* forwarding threads, sessions and signals.  What each step of a program  *)
(* does is found first, since the invariant is about where the main thread *)
(* and its handlers are.                                                   *)
(***************************************************************************)
EXTENDS QueueWait, Lifecycle, SequenceTheorems, TLAPS

-----------------------------------------------------------------------------
(* 1. Waiting for a message                                                *)

SeekersWantIDs == \A t \in Threads : pc[t] \in {"lookID", "found"} => want[t] # AnyMessage

WaitInv == WaitTypeOK /\ SeekersWantIDs

(* Where a thread that waits for an id may be.                             *)
Covers(t, id) == want[t] = id /\ pc[t] \in {"gap", "waiting", "woken", "expired"}

(* What a search finds is a message that is visible or held.               *)
LEMMA SoughtType ==
  ASSUME NEW t \in Threads
  PROVE  Sought(t) \subseteq visible \cup held
BY DEF Sought

(* Nobody waits at first.                                                  *)
LEMMA InitCovered == WaitInit => WaitInv /\ WaitsetCovered
BY WaitAssumption DEF WaitInit, WaitInv, SeekersWantIDs, WaitsetCovered, WaitTypeOK, Wants

(* Every step of a thread keeps types and needs.                                *)
LEMMA ThreadType ==
  ASSUME WaitInv, NEW t \in Threads,
         Request(t) \/ Tick(t) \/ Run(t) \/ WakeSpuriously(t)
  PROVE  WaitInv'
<1> USE WaitAssumption DEF WaitInv, WaitTypeOK, SeekersWantIDs, queueVars, requestVars
<1>1. CASE Request(t)
  BY <1>1 DEF Request
<1>2. CASE Tick(t)
  BY <1>2 DEF Tick
<1>3. CASE Find(t) \/ Claim(t)
  <2>1. PICK m \in visible \cup held \cup {found[t]} : Grab(t, m)
    BY <1>3, SoughtType DEF Find, Claim
  <2> QED BY <2>1 DEF Grab, Answer, Wants
<1>4. CASE FindNone(t)
  <2>1. CASE Answer(t)
    BY <1>4, <2>1 DEF FindNone, Answer, Wants
  <2>2. CASE Goto(t, "gap")
    BY <1>4, <2>2 DEF FindNone, Goto
  <2>3. CASE Goto(t, "lookID") /\ want[t] # AnyMessage
    BY <1>4, <2>3 DEF FindNone, Goto
  <2> QED BY <1>4, <2>1, <2>2, <2>3 DEF FindNone
<1>5. CASE LookID(t)
  BY <1>5, SoughtType DEF LookID, FoundID, Goto, Wants
<1>6. CASE Sleep(t) \/ TimeOut(t) \/ WakeFront(t) \/ WakeSpuriously(t)
  BY <1>6 DEF Sleep, TimeOut, WakeFront, WakeSpuriously, Goto
<1>7. CASE Expire(t)
  BY <1>7 DEF Expire, Answer, Wants
<1>8. CASE WakeID(t)
  BY <1>8, SoughtType DEF WakeID, FoundID, Goto, Answer, Wants
<1> QED BY <1>1, <1>2, <1>3, <1>4, <1>5, <1>6, <1>7, <1>8 DEF Run

(* A signal wakes threads that wait, and changes nothing of what they want.*)
LEMMA SignalMoves ==
  ASSUME WaitTypeOK, SignalFront \/ SignalID
  PROVE  /\ UNCHANGED requestVars
         /\ pc' \in [Threads -> {"idle", "look", "lookID", "found", "gap", "waiting",
                                 "woken", "expired"}]
         /\ \A t \in Threads : pc'[t] = pc[t] \/ (pc[t] = "waiting" /\ pc'[t] = "woken")
<1> DEFINE Labels == {"idle", "look", "lookID", "found", "gap", "waiting", "woken", "expired"}
<1>0. pc \in [Threads -> Labels] /\ "woken" \in Labels
  BY DEF WaitTypeOK
<1> HIDE DEF Labels
<1>1. CASE SignalFront /\ WaitingFront = {}
  BY <1>0, <1>1 DEF SignalFront, requestVars, Labels
<1>2. CASE SignalFront /\ WaitingFront # {}
  <2>1. PICK t \in WaitingFront : Goto(t, "woken")
    BY <1>2 DEF SignalFront
  <2>2. t \in Threads /\ pc[t] = "waiting" /\ pc' = [pc EXCEPT ![t] = "woken"]
    BY <2>1 DEF WaitingFront, Goto
  <2>3. pc' \in [Threads -> Labels]
    BY <1>0, <2>2
  <2>4. \A u \in Threads : pc'[u] = pc[u] \/ (pc[u] = "waiting" /\ pc'[u] = "woken")
    BY <1>0, <2>2
  <2> QED BY <2>1, <2>3, <2>4 DEF Goto, Labels
<1>3. CASE SignalID
  <2>1. \A t \in Threads : pc'[t] = IF t \in WaitingID THEN "woken" ELSE pc[t]
    BY <1>3 DEF SignalID
  <2>2. \A t \in Threads : t \in WaitingID => pc[t] = "waiting"
    BY DEF WaitingID
  <2>3. pc' \in [Threads -> Labels]
    BY <1>0, <1>3 DEF SignalID
  <2> QED BY <1>3, <2>1, <2>2, <2>3 DEF SignalID, Labels
<1> QED BY <1>1, <1>2, <1>3

(* Every step of a message keeps the types.                                *)
LEMMA MessageType ==
  ASSUME WaitInv, NEW m \in Msgs, Publish(m) \/ PutBack(m) \/ Forget(m)
  PROVE  WaitInv'
<1> USE DEF WaitInv, WaitTypeOK, SeekersWantIDs
<1>1. CASE Publish(m) \/ PutBack(m)
  <2>1. SignalFront \/ SignalID
    BY <1>1 DEF Publish, PutBack
  <2>2. UNCHANGED <<want, patience, late, found>>
    BY <2>1, SignalMoves DEF requestVars
  <2> QED BY <1>1, <2>1, <2>2, SignalMoves DEF Publish, PutBack
<1>2. CASE Forget(m)
  BY <1>2 DEF Forget
<1> QED BY <1>1, <1>2

(* What leaves the waitset needs no cover any more; what stays in it or    *)
(* joins it is covered by a thread that goes on waiting.                   *)
LEMMA CoverKept ==
  ASSUME WaitsetCovered, WaitTypeOK',
         \A id \in waitset' \cap waitset, u \in Threads :
            Covers(u, id) => Covers(u, id)',
         \A id \in waitset' \ waitset : \E u \in Threads : Covers(u, id)'
  PROVE  WaitsetCovered'
BY DEF WaitsetCovered, Covers

(* A thread that answers its request, or looks for its id, waited for none *)
(* that stays in the waitset.                                              *)
LEMMA ThreadCovered ==
  ASSUME WaitInv, WaitsetCovered, NEW t \in Threads,
         Request(t) \/ Tick(t) \/ Run(t) \/ WakeSpuriously(t)
  PROVE  WaitsetCovered'
<1>0. WaitTypeOK /\ WaitTypeOK' /\ AnyMessage \notin waitset
  BY ThreadType, WaitAssumption DEF WaitInv, WaitTypeOK
<1> USE <1>0 DEF Covers, WaitTypeOK, queueVars, requestVars
<1>1. CASE Request(t) \/ Tick(t)
  <2>1. \A u \in Threads, id \in waitset : Covers(u, id) => Covers(u, id)'
    BY <1>1 DEF Request, Tick
  <2> QED BY <2>1, <1>1, CoverKept DEF Request, Tick
<1>2. CASE Find(t) \/ Claim(t)
  <2>1. Answer(t) /\ pc[t] \in {"look", "found"} /\ UNCHANGED waitset
    BY <1>2 DEF Find, Claim, Grab
  <2>2. \A u \in Threads, id \in waitset : Covers(u, id) => Covers(u, id)'
    BY <2>1 DEF Answer
  <2> QED BY <2>1, <2>2, CoverKept
<1>3. CASE FindNone(t)
  <2>1. \A u \in Threads, id \in waitset : Covers(u, id) => Covers(u, id)'
    BY <1>3 DEF FindNone, Answer, Goto
  <2> QED BY <2>1, <1>3, CoverKept DEF FindNone
<1>4. CASE LookID(t)
  <2>1. \A u \in Threads, id \in waitset : Covers(u, id) => Covers(u, id)'
    BY <1>4 DEF LookID, FoundID, Goto
  <2>2. \A id \in waitset' \ waitset : Covers(t, id)'
    BY <1>4 DEF LookID, FoundID, Goto
  <2> QED BY <2>1, <2>2, CoverKept
<1>5. CASE Sleep(t) \/ TimeOut(t) \/ WakeFront(t) \/ WakeSpuriously(t)
  <2>1. \A u \in Threads, id \in waitset : Covers(u, id) => Covers(u, id)'
    BY <1>5 DEF Sleep, TimeOut, WakeFront, WakeSpuriously, Goto
  <2> QED BY <2>1, <1>5, CoverKept DEF Sleep, TimeOut, WakeFront, WakeSpuriously
<1>6. CASE Expire(t)
  <2>1. \A u \in Threads, id \in waitset' : Covers(u, id) => Covers(u, id)'
    BY <1>6 DEF Expire, Answer
  <2> QED BY <2>1, <1>6, CoverKept DEF Expire
<1>7. CASE WakeID(t)
  <2>1. \A u \in Threads, id \in waitset : Covers(u, id) => Covers(u, id)'
    BY <1>7 DEF WakeID, FoundID, Goto, Answer
  <2> QED BY <2>1, <1>7, CoverKept DEF WakeID, FoundID
<1> QED BY <1>1, <1>2, <1>3, <1>4, <1>5, <1>6, <1>7 DEF Run

(* A message that comes, comes back or goes leaves the waiting threads     *)
(* waiting, and takes at most its own id out of the waitset.               *)
LEMMA MessageCovered ==
  ASSUME WaitInv, WaitsetCovered, NEW m \in Msgs, Publish(m) \/ PutBack(m) \/ Forget(m)
  PROVE  WaitsetCovered'
<1>0. WaitTypeOK /\ WaitTypeOK'
  BY MessageType DEF WaitInv
<1>1. waitset' \subseteq waitset
  BY DEF Publish, PutBack, Forget
<1>2. \A u \in Threads, id \in waitset : Covers(u, id) => Covers(u, id)'
  <2>1. CASE Publish(m) \/ PutBack(m)
    <3>1. SignalFront \/ SignalID
      BY <2>1 DEF Publish, PutBack
    <3> QED BY <3>1, <1>0, SignalMoves DEF Covers, requestVars
  <2>2. CASE Forget(m)
    BY <2>2 DEF Forget, Covers
  <2> QED BY <2>1, <2>2
<1> QED BY <1>0, <1>1, <1>2, CoverKept

(* No step leaves an id in the waitset that nobody waits for.              *)
LEMMA StepCovered ==
  WaitInv /\ WaitsetCovered /\ [WaitNext]_waitVars => WaitInv' /\ WaitsetCovered'
<1>1. WaitInv /\ WaitsetCovered /\ UNCHANGED waitVars => WaitInv' /\ WaitsetCovered'
  BY DEF waitVars, WaitInv, SeekersWantIDs, WaitsetCovered, WaitTypeOK
<1>2. WaitInv /\ WaitsetCovered /\ WaitNext => WaitInv' /\ WaitsetCovered'
  BY ThreadType, ThreadCovered, MessageType, MessageCovered DEF WaitNext
<1> QED BY <1>1, <1>2

(* FinalizeEnqueue() never spends its wake-up on an id nobody waits for.   *)
THEOREM NoWakeUpWasted == WaitSpec => []WaitsetCovered
BY InitCovered, StepCovered, PTL DEF WaitSpec

-----------------------------------------------------------------------------
(* 2. Starting and stopping                                                *)

(* The number of forwarding threads.                                       *)
Count == Len(Forwarders)

(* What a step of a program may be.                                        *)
Instructions ==
    {"new", "configure", "start", "lock", "unlock", "join", "delete", "stop"}
        \X (ServerThreads \cup {"log", "forwardthds"})

(* The forwarding threads are a sequence of threads, and there is one at   *)
(* least (LifeAssumption).                                                 *)
LEMMA CountType == Count \in Nat /\ Count > 0 /\ Forwarders \in Seq(ServerThreads)
<1> DEFINE S == ToSet(Forwarders)
<1>1. Forwarders \in Seq(S) /\ S \subseteq ServerThreads
  BY LifeAssumption DEF ServerThreads
<1> HIDE DEF S
<1>2. Forwarders \in Seq(ServerThreads)
  BY <1>1
<1> QED BY <1>1, <1>2, LifeAssumption DEF Count

(* Two programs, one after the other.                                      *)
LEMMA Joined ==
  ASSUME NEW S, NEW q \in Seq(S), NEW r \in Seq(S)
  PROVE  /\ q \o r \in Seq(S) /\ Len(q \o r) = Len(q) + Len(r)
         /\ Len(q) \in Nat /\ Len(r) \in Nat
         /\ \A k \in 1 .. Len(q) : (q \o r)[k] = q[k]
         /\ \A k \in 1 .. Len(r) : (q \o r)[Len(q) + k] = r[k]
<1> DEFINE a == Len(q)
           b == Len(r)
           c == q \o r
<1>1. a \in Nat /\ b \in Nat
  OBVIOUS
<1>2. /\ c \in Seq(S) /\ Len(c) = a + b
      /\ \A k \in 1 .. a + b : c[k] = IF k <= a THEN q[k] ELSE r[k - a]
  BY ConcatProperties
<1> HIDE DEF a, b, c
<1>3. ASSUME NEW k \in 1 .. a PROVE c[k] = q[k]
  BY <1>1, <1>2
<1>4. ASSUME NEW k \in 1 .. b PROVE c[a + k] = r[k]
  <2>1. a + k \in 1 .. a + b /\ ~ (a + k <= a) /\ (a + k) - a = k
    BY <1>1
  <2> QED BY <2>1, <1>2
<1> QED BY <1>1, <1>2, <1>3, <1>4 DEF a, b, c

(* A program of so many steps.                                              *)
Program(q, n) == q \in Seq(Instructions) /\ Len(q) = n

(* c is the program q of a steps, and then the program r of b steps.       *)
Consists(c, q, a, r, b) ==
    /\ \A k \in 1 .. a : c[k] = q[k]
    /\ \A k \in 1 .. b : c[a + k] = r[k]

(* One program after another: its steps are those of the two, in turn.     *)
LEMMA Followed ==
  ASSUME NEW q, NEW r, NEW a \in Nat, NEW b \in Nat, Program(q, a), Program(r, b)
  PROVE  Program(q \o r, a + b) /\ Consists(q \o r, q, a, r, b)
<1>1. q \in Seq(Instructions) /\ r \in Seq(Instructions)
  BY DEF Program
<1> DEFINE c == q \o r
<1>2. /\ c \in Seq(Instructions) /\ Len(c) = Len(q) + Len(r)
      /\ Len(q) \in Nat /\ Len(r) \in Nat
      /\ \A k \in 1 .. Len(q) : c[k] = q[k]
      /\ \A k \in 1 .. Len(r) : c[Len(q) + k] = r[k]
  BY <1>1, Joined
<1> HIDE DEF c
<1>3. Len(q) = a /\ Len(r) = b
  BY DEF Program
<1>4. Program(c, a + b)
  BY <1>2, <1>3 DEF Program
<1> QED BY <1>2, <1>3, <1>4 DEF c, Consists

(* The same call for every thread of a list.                               *)
LEMMA EachIs ==
  ASSUME NEW op \in {"start", "join", "stop"}, NEW ts \in Seq(ServerThreads)
  PROVE  /\ Each(op, ts) \in Seq(Instructions) /\ Len(Each(op, ts)) = Len(ts)
         /\ \A k \in 1 .. Len(ts) : Each(op, ts)[k] = <<op, ts[k]>>
<1>1. DOMAIN ts = 1 .. Len(ts) /\ Len(ts) \in Nat /\ \A k \in 1 .. Len(ts) : ts[k] \in ServerThreads
  OBVIOUS
<1>2. Each(op, ts) \in [1 .. Len(ts) -> Instructions]
  BY <1>1 DEF Each, Instructions
<1>3. Each(op, ts) \in Seq(Instructions) /\ Len(Each(op, ts)) = Len(ts)
  BY <1>1, <1>2
<1> QED BY <1>1, <1>3 DEF Each

(* A list of one, and a list of two.                                       *)
LEMMA Single ==
  ASSUME NEW S, NEW a \in S
  PROVE  <<a>> \in Seq(S) /\ Len(<<a>>) = 1 /\ <<a>>[1] = a
OBVIOUS

LEMMA Pair ==
  ASSUME NEW S, NEW a \in S, NEW b \in S
  PROVE  <<a, b>> \in Seq(S) /\ Len(<<a, b>>) = 2 /\ <<a, b>>[1] = a /\ <<a, b>>[2] = b
OBVIOUS

(* Writing to the log takes the mutex and gives it back.                   *)
LEMMA LoggingIs ==
  /\ Logging \in Seq(Instructions) /\ Len(Logging) = 2
  /\ Logging[1] = <<"lock", "log">> /\ Logging[2] = <<"unlock", "log">>
<1> DEFINE x == <<"lock", "log">>
           y == <<"unlock", "log">>
<1>1. x \in Instructions /\ y \in Instructions
  BY DEF Instructions
<1>2. Logging = <<x, y>>
  BY DEF Logging
<1> HIDE DEF x, y
<1>3. Logging \in Seq(Instructions) /\ Len(Logging) = 2 /\ Logging[1] = x /\ Logging[2] = y
  BY <1>1, <1>2, Pair
<1> QED BY <1>3 DEF x, y

(* What comes before the last two steps of a program that ends with them.  *)
LEMMA LoggedIs ==
  ASSUME NEW q \in Seq(Instructions)
  PROVE  /\ q \o Logging \in Seq(Instructions) /\ Len(q \o Logging) = Len(q) + 2
         /\ \A k \in 1 .. Len(q) : (q \o Logging)[k] = q[k]
         /\ (q \o Logging)[Len(q) + 1] = <<"lock", "log">>
         /\ (q \o Logging)[Len(q) + 2] = <<"unlock", "log">>
<1> DEFINE L == Logging
           c == q \o L
<1>1. L \in Seq(Instructions)
  BY LoggingIs
<1>0. Len(L) = 2
  BY LoggingIs
<1> HIDE DEF L
<1>2. /\ c \in Seq(Instructions) /\ Len(c) = Len(q) + Len(L)
      /\ \A k \in 1 .. Len(q) : c[k] = q[k]
      /\ \A k \in 1 .. Len(L) : c[Len(q) + k] = L[k]
  BY <1>1, Joined
<1> HIDE DEF c
<1>3. c[Len(q) + 1] = L[1] /\ c[Len(q) + 2] = L[2]
  <2>1. 1 \in 1 .. 2 /\ 2 \in 1 .. 2
    OBVIOUS
  <2> QED BY <2>1, <1>0, <1>2
<1>4. L[1] = <<"lock", "log">> /\ L[2] = <<"unlock", "log">>
  BY LoggingIs DEF L
<1> QED BY <1>0, <1>2, <1>3, <1>4 DEF L, c

(* startSafmq() creates and starts, and logs at its end.                   *)
LEMMA StartIs ==
  /\ startSafmq \in Seq(Instructions) /\ Len(startSafmq) = Count + 9
  /\ \A k \in 1 .. Count + 7 : startSafmq[k][1] \in {"new", "configure", "start"}
  /\ startSafmq[Count + 8] = <<"lock", "log">> /\ startSafmq[Count + 9] = <<"unlock", "log">>
<1> DEFINE x == <<"new", "manager">>
           y == <<"configure", "forwardthds">>
           z == <<"new", "forwardthds">>
           A == <<x>>
           B == Each("start", <<"deliver", "manager">>)
           C == <<y, z>>
           D == Each("start", Forwarders \o <<"tcp", "ssl">>)
           Early == {"new", "configure", "start"}
           Is(q, n) == /\ q \in Seq(Instructions) /\ Len(q) = n
                       /\ \A k \in 1 .. n : q[k][1] \in Early
<1>1. Is(A, 1)
  <2>1. x \in Instructions /\ x[1] \in Early
    BY DEF Instructions, ServerThreads
  <2> HIDE DEF x
  <2>2. A \in Seq(Instructions) /\ Len(A) = 1 /\ A[1] = x
    BY <2>1, Single
  <2> QED BY <2>1, <2>2
<1>2. Is(B, 2)
  <2> DEFINE ts == <<"deliver", "manager">>
  <2>1. ts \in Seq(ServerThreads) /\ Len(ts) = 2
    <3>1. "deliver" \in ServerThreads /\ "manager" \in ServerThreads
      BY DEF ServerThreads
    <3> QED BY <3>1, Pair
  <2> HIDE DEF ts
  <2>2. /\ Each("start", ts) \in Seq(Instructions) /\ Len(Each("start", ts)) = 2
        /\ \A k \in 1 .. 2 : Each("start", ts)[k] = <<"start", ts[k]>>
    BY <2>1, EachIs
  <2> QED BY <2>2 DEF ts
<1>3. Is(C, 2)
  <2>1. y \in Instructions /\ z \in Instructions /\ y[1] \in Early /\ z[1] \in Early
    BY DEF Instructions
  <2> HIDE DEF y, z
  <2>2. C \in Seq(Instructions) /\ Len(C) = 2 /\ C[1] = y /\ C[2] = z
    BY <2>1, Pair
  <2>3. \A k \in 1 .. 2 : k = 1 \/ k = 2
    OBVIOUS
  <2> QED BY <2>1, <2>2, <2>3
<1>4. Is(D, Count + 2)
  <2> DEFINE ts == <<"tcp", "ssl">>
             us == Forwarders \o ts
  <2>1. "tcp" \in ServerThreads /\ "ssl" \in ServerThreads
    BY DEF ServerThreads, Acceptors
  <2>2. ts \in Seq(ServerThreads)
    BY <2>1, Pair
  <2>3. Len(ts) = 2
    BY <2>1, Pair
  <2> HIDE DEF ts
  <2>4. Forwarders \in Seq(ServerThreads)
    BY CountType
  <2>5. us \in Seq(ServerThreads) /\ Len(us) = Len(Forwarders) + Len(ts)
    <3> DEFINE F == Forwarders
    <3>1. F \in Seq(ServerThreads)
      BY <2>4
    <3> HIDE DEF F
    <3>2. F \o ts \in Seq(ServerThreads) /\ Len(F \o ts) = Len(F) + Len(ts)
      BY <2>2, <3>1, Joined
    <3> QED BY <3>2 DEF F
  <2> HIDE DEF us
  <2>6. Len(us) = Count + 2
    BY <2>3, <2>5 DEF Count
  <2>7. /\ Each("start", us) \in Seq(Instructions) /\ Len(Each("start", us)) = Count + 2
        /\ \A k \in 1 .. Count + 2 : Each("start", us)[k] = <<"start", us[k]>>
    BY <2>5, <2>6, EachIs
  <2> QED BY <2>7 DEF us, ts
<1> HIDE DEF A, B, C, D
<1>5. ASSUME NEW q, NEW r, NEW a, NEW b, Is(q, a), Is(r, b)
      PROVE  Is(q \o r, a + b)
  <2> DEFINE c == q \o r
  <2>1. q \in Seq(Instructions) /\ r \in Seq(Instructions)
    BY <1>5
  <2>2. /\ c \in Seq(Instructions) /\ Len(c) = Len(q) + Len(r)
        /\ Len(q) \in Nat /\ Len(r) \in Nat
        /\ \A k \in 1 .. Len(q) : c[k] = q[k]
        /\ \A k \in 1 .. Len(r) : c[Len(q) + k] = r[k]
    BY <2>1, Joined
  <2> HIDE DEF c
  <2>3. /\ c \in Seq(Instructions) /\ Len(c) = a + b /\ a \in Nat /\ b \in Nat
        /\ \A k \in 1 .. a : c[k] = q[k]
        /\ \A k \in 1 .. b : c[a + k] = r[k]
    BY <1>5, <2>2
  <2>4. ASSUME NEW k \in 1 .. a + b PROVE c[k][1] \in Early
    <3>1. CASE k \in 1 .. a
      BY <3>1, <2>3, <1>5
    <3>2. CASE k - a \in 1 .. b
      <4>1. k = a + (k - a)
        BY <2>3
      <4> QED BY <4>1, <3>2, <2>3, <1>5
    <3> QED BY <3>1, <3>2, <2>3
  <2> QED BY <2>3, <2>4 DEF c
<1> DEFINE E == A \o B \o C \o D
<1>6. Is(E, Count + 7)
  <2> HIDE DEF Is
  <2>1. Is(A \o B, 1 + 2)
    BY <1>1, <1>2, <1>5
  <2>2. Is(A \o B \o C, (1 + 2) + 2)
    BY <2>1, <1>3, <1>5
  <2>3. Is(E, ((1 + 2) + 2) + (Count + 2))
    BY <2>2, <1>4, <1>5
  <2>4. ((1 + 2) + 2) + (Count + 2) = Count + 7
    BY CountType
  <2> QED BY <2>3, <2>4
<1>7. startSafmq = E \o Logging
  BY DEF startSafmq, A, B, C, D
<1> HIDE DEF E
<1>8. /\ E \o Logging \in Seq(Instructions) /\ Len(E \o Logging) = (Count + 7) + 2
      /\ \A k \in 1 .. Count + 7 : (E \o Logging)[k] = E[k]
      /\ (E \o Logging)[(Count + 7) + 1] = <<"lock", "log">>
      /\ (E \o Logging)[(Count + 7) + 2] = <<"unlock", "log">>
  <2>1. E \in Seq(Instructions)
    BY <1>6
  <2>2. /\ E \o Logging \in Seq(Instructions) /\ Len(E \o Logging) = Len(E) + 2
        /\ \A k \in 1 .. Len(E) : (E \o Logging)[k] = E[k]
        /\ (E \o Logging)[Len(E) + 1] = <<"lock", "log">>
        /\ (E \o Logging)[Len(E) + 2] = <<"unlock", "log">>
    BY <2>1, LoggedIs
  <2> QED BY <1>6, <2>2
<1>9. (Count + 7) + 1 = Count + 8 /\ (Count + 7) + 2 = Count + 9
  BY CountType
<1> QED BY <1>6, <1>7, <1>8, <1>9

(* The same call for the threads of two lists.                             *)
LEMMA Joins ==
  ASSUME NEW q \in Seq(ServerThreads), NEW r \in Seq(ServerThreads), NEW op \in {"join", "stop"}
  PROVE  /\ Program(Each(op, q \o r), Len(q) + Len(r))
         /\ Len(q) \in Nat /\ Len(r) \in Nat
         /\ \A k \in 1 .. Len(q) + Len(r) : Each(op, q \o r)[k][1] = op
         /\ \A k \in 1 .. Len(r) : Each(op, q \o r)[Len(q) + k] = <<op, r[k]>>
<1> DEFINE c == q \o r
<1>1. /\ c \in Seq(ServerThreads) /\ Len(c) = Len(q) + Len(r)
      /\ Len(q) \in Nat /\ Len(r) \in Nat
      /\ \A k \in 1 .. Len(r) : c[Len(q) + k] = r[k]
  BY Joined
<1> HIDE DEF c
<1>2. /\ Each(op, c) \in Seq(Instructions) /\ Len(Each(op, c)) = Len(c)
      /\ \A k \in 1 .. Len(c) : Each(op, c)[k] = <<op, c[k]>>
  BY <1>1, EachIs
<1> DEFINE e == Each(op, c)
<1> HIDE DEF e
<1>3. Program(e, Len(q) + Len(r))
  BY <1>1, <1>2 DEF Program, e
<1>4. \A k \in 1 .. Len(q) + Len(r) : e[k] = <<op, c[k]>>
  BY <1>1, <1>2 DEF e
<1>5. ASSUME NEW k \in 1 .. Len(r) PROVE e[Len(q) + k] = <<op, r[k]>>
  <2>1. Len(q) + k \in 1 .. Len(q) + Len(r)
    BY <1>1
  <2>2. e[Len(q) + k] = <<op, c[Len(q) + k]>>
    BY <2>1, <1>4
  <2> QED BY <2>2, <1>1
<1> QED BY <1>1, <1>3, <1>4, <1>5 DEF c, e

(* Two threads are a list of threads.                                      *)
LEMMA PairOfThreads ==
  ASSUME NEW a \in ServerThreads, NEW b \in ServerThreads
  PROVE  <<a, b>> \in Seq(ServerThreads) /\ Len(<<a, b>>) = 2
BY Pair

(* The threads that are not forwarding threads.                            *)
LEMMA ServerThreadsAre ==
  /\ "ssl" \in ServerThreads /\ "tcp" \in ServerThreads
  /\ "deliver" \in ServerThreads /\ "manager" \in ServerThreads
BY DEF ServerThreads, Acceptors

(* Writing to the log takes two steps.                                     *)
LEMMA LoggingProgram == Program(Logging, 2)
BY LoggingIs DEF Program

(* shutdownSafmq() joins every forwarding thread before it frees their     *)
(* array.                                                                  *)
LEMMA ShutdownIs ==
  /\ Program(shutdownSafmq, Count + 7)
  /\ \A k \in 1 .. Count + 2 : shutdownSafmq[k][1] = "join"
  /\ \A k \in 1 .. Count : shutdownSafmq[2 + k] = <<"join", Forwarders[k]>>
  /\ shutdownSafmq[Count + 3] = <<"delete", "forwardthds">>
  /\ shutdownSafmq[Count + 4][1] = "join" /\ shutdownSafmq[Count + 5][1] = "join"
  /\ shutdownSafmq[Count + 6] = <<"lock", "log">>
  /\ shutdownSafmq[Count + 7] = <<"unlock", "log">>
<1> DEFINE x == <<"delete", "forwardthds">>
           A == Each("join", <<"ssl", "tcp">> \o Forwarders)
           B == <<x>>
           C == Each("join", <<"deliver", "manager">>)
<1>1. /\ Program(A, Count + 2)
      /\ \A k \in 1 .. Count + 2 : A[k][1] = "join"
      /\ \A k \in 1 .. Count : A[2 + k] = <<"join", Forwarders[k]>>
  <2> DEFINE ts == <<"ssl", "tcp">>
             F == Forwarders
             e == Each("join", ts \o F)
  <2>1. ts \in Seq(ServerThreads)
    BY ServerThreadsAre, PairOfThreads
  <2>2. Len(ts) = 2
    BY ServerThreadsAre, PairOfThreads
  <2>3. F \in Seq(ServerThreads)
    BY CountType
  <2>4. Len(F) = Count /\ Count \in Nat
    BY CountType DEF Count
  <2> HIDE DEF ts, F
  <2>5. /\ Program(e, Len(ts) + Len(F))
        /\ \A k \in 1 .. Len(ts) + Len(F) : e[k][1] = "join"
        /\ \A k \in 1 .. Len(F) : e[Len(ts) + k] = <<"join", F[k]>>
    BY <2>1, <2>3, Joins
  <2>6. 2 + Count = Count + 2
    BY <2>4
  <2> HIDE DEF e
  <2>7. /\ Program(e, Count + 2)
        /\ \A k \in 1 .. Count + 2 : e[k][1] = "join"
        /\ \A k \in 1 .. Count : e[2 + k] = <<"join", F[k]>>
    BY <2>2, <2>4, <2>5, <2>6
  <2> QED BY <2>7 DEF e, ts, F
<1>2. Program(B, 1) /\ B[1] = x
  <2>1. x \in Instructions
    BY DEF Instructions
  <2> HIDE DEF x
  <2> QED BY <2>1, Single DEF Program
<1>3. Program(C, 2) /\ C[1][1] = "join" /\ C[2][1] = "join"
  <2> DEFINE ts == <<"deliver", "manager">>
  <2>1. ts \in Seq(ServerThreads) /\ Len(ts) = 2
    BY ServerThreadsAre, PairOfThreads
  <2> HIDE DEF ts
  <2>2. /\ Each("join", ts) \in Seq(Instructions) /\ Len(Each("join", ts)) = 2
        /\ \A k \in 1 .. 2 : Each("join", ts)[k] = <<"join", ts[k]>>
    BY <2>1, EachIs
  <2>3. 1 \in 1 .. 2 /\ 2 \in 1 .. 2
    OBVIOUS
  <2> QED BY <2>2, <2>3 DEF ts, Program
<1> DEFINE L == Logging
<1>4. /\ Program(L, 2)
      /\ L[1] = <<"lock", "log">> /\ L[2] = <<"unlock", "log">>
  BY LoggingProgram, LoggingIs
<1> DEFINE n == Count
<1>5. n \in Nat
  BY CountType
<1>6. shutdownSafmq = ((A \o B) \o C) \o L
  BY DEF shutdownSafmq
<1> HIDE DEF x, A, B, C, L, n
<1> DEFINE AB == A \o B
<1>7. /\ Program(AB, n + 3)
      /\ \A k \in 1 .. n + 2 : AB[k] = A[k]
      /\ \A k \in 1 .. 1 : AB[(n + 2) + k] = B[k]
  <2> DEFINE a == n + 2
  <2>1. Program(A, a) /\ a \in Nat /\ a + 1 = n + 3
    BY <1>1, <1>5 DEF n
  <2> HIDE DEF a
  <2>2. Program(AB, a + 1) /\ Consists(AB, A, a, B, 1)
    BY <2>1, <1>2, Followed
  <2> HIDE DEF AB
  <2>3. /\ Program(AB, n + 3)
        /\ \A k \in 1 .. a : AB[k] = A[k]
        /\ \A k \in 1 .. 1 : AB[a + k] = B[k]
    BY <2>1, <2>2 DEF Consists
  <2> QED BY <2>3 DEF a
<1> HIDE DEF AB
<1> DEFINE ABC == AB \o C
<1>8. /\ Program(ABC, n + 5)
      /\ \A k \in 1 .. n + 3 : ABC[k] = AB[k]
      /\ \A k \in 1 .. 2 : ABC[(n + 3) + k] = C[k]
  <2> DEFINE a == n + 3
  <2>1. Program(AB, a) /\ a \in Nat /\ a + 2 = n + 5
    BY <1>5, <1>7
  <2> HIDE DEF a
  <2>2. Program(ABC, a + 2) /\ Consists(ABC, AB, a, C, 2)
    BY <2>1, <1>3, Followed
  <2> HIDE DEF ABC
  <2>3. /\ Program(ABC, n + 5)
        /\ \A k \in 1 .. a : ABC[k] = AB[k]
        /\ \A k \in 1 .. 2 : ABC[a + k] = C[k]
    BY <2>1, <2>2 DEF Consists
  <2> QED BY <2>3 DEF a
<1> HIDE DEF ABC
<1> DEFINE S == ABC \o L
<1>9. /\ Program(S, n + 7)
      /\ \A k \in 1 .. n + 5 : S[k] = ABC[k]
      /\ \A k \in 1 .. 2 : S[(n + 5) + k] = L[k]
  <2> DEFINE a == n + 5
  <2>1. Program(ABC, a) /\ a \in Nat /\ a + 2 = n + 7
    BY <1>5, <1>8
  <2> HIDE DEF a
  <2>2. Program(S, a + 2) /\ Consists(S, ABC, a, L, 2)
    BY <2>1, <1>4, Followed
  <2> HIDE DEF S
  <2>3. /\ Program(S, n + 7)
        /\ \A k \in 1 .. a : S[k] = ABC[k]
        /\ \A k \in 1 .. 2 : S[a + k] = L[k]
    BY <2>1, <2>2 DEF Consists
  <2> QED BY <2>3 DEF a
<1> HIDE DEF S
<1>10. ASSUME NEW k \in 1 .. n + 2 PROVE S[k] = A[k]
  <2>1. k \in 1 .. n + 2 /\ k \in 1 .. n + 3 /\ k \in 1 .. n + 5
    BY <1>5
  <2> QED BY <2>1, <1>7, <1>8, <1>9
<1>11. S[n + 3] = x
  <2>1. S[n + 3] = ABC[n + 3] /\ ABC[n + 3] = AB[n + 3]
    BY <1>5, <1>8, <1>9
  <2>2. AB[(n + 2) + 1] = B[1] /\ (n + 2) + 1 = n + 3
    BY <1>5, <1>7
  <2> QED BY <2>1, <2>2, <1>2
<1>12. S[n + 4][1] = "join" /\ S[n + 5][1] = "join"
  <2>1. ABC[(n + 3) + 1] = C[1] /\ ABC[(n + 3) + 2] = C[2]
    <3>1. 1 \in 1 .. 2 /\ 2 \in 1 .. 2
      OBVIOUS
    <3> QED BY <3>1, <1>8
  <2>2. (n + 3) + 1 = n + 4 /\ (n + 3) + 2 = n + 5
    BY <1>5
  <2>3. S[n + 4] = ABC[n + 4] /\ S[n + 5] = ABC[n + 5]
    BY <1>5, <1>9
  <2> QED BY <2>1, <2>2, <2>3, <1>3
<1>13. S[n + 6] = <<"lock", "log">> /\ S[n + 7] = <<"unlock", "log">>
  <2>1. S[(n + 5) + 1] = L[1] /\ S[(n + 5) + 2] = L[2]
    <3>1. 1 \in 1 .. 2 /\ 2 \in 1 .. 2
      OBVIOUS
    <3> QED BY <3>1, <1>9
  <2>2. (n + 5) + 1 = n + 6 /\ (n + 5) + 2 = n + 7
    BY <1>5
  <2> QED BY <2>1, <2>2, <1>4
<1>14. Program(S, n + 7)
  BY <1>9
<1>15. ASSUME NEW k \in 1 .. n PROVE S[2 + k] = A[2 + k]
  <2>1. 2 + k \in 1 .. n + 2
    BY <1>5
  <2> QED BY <2>1, <1>10
<1>16. /\ \A k \in 1 .. n + 2 : S[k][1] = "join"
       /\ \A k \in 1 .. n : S[2 + k] = <<"join", Forwarders[k]>>
  BY <1>1, <1>10, <1>15 DEF n
<1>17. shutdownSafmq = S
  BY <1>6 DEF S, ABC, AB
<1> QED BY <1>11, <1>12, <1>13, <1>14, <1>16, <1>17 DEF n, x

(* The handler logs first, and then stops the threads.                     *)
LEMMA SigintIs ==
  /\ Program(sigint, Count + 6)
  /\ sigint[1] = <<"lock", "log">> /\ sigint[2] = <<"unlock", "log">>
  /\ \A k \in 3 .. Count + 6 : sigint[k][1] = "stop"
<1> DEFINE ts == <<"ssl", "tcp">> \o Forwarders
           us == <<"deliver", "manager">>
           e == Each("stop", ts \o us)
           L == Logging
           n == Count
<1>1. ts \in Seq(ServerThreads) /\ Len(ts) = 2 + n
  <2> DEFINE q == <<"ssl", "tcp">>
             F == Forwarders
  <2>1. q \in Seq(ServerThreads)
    BY ServerThreadsAre, PairOfThreads
  <2>2. Len(q) = 2
    BY ServerThreadsAre, PairOfThreads
  <2>3. F \in Seq(ServerThreads)
    BY CountType
  <2>4. Len(F) = n
    BY DEF Count
  <2> HIDE DEF q, F
  <2>5. q \o F \in Seq(ServerThreads) /\ Len(q \o F) = Len(q) + Len(F)
    BY <2>1, <2>3, Joined
  <2> QED BY <2>2, <2>4, <2>5 DEF q, F
<1>2. us \in Seq(ServerThreads) /\ Len(us) = 2
  BY ServerThreadsAre, PairOfThreads
<1>3. L[1] = <<"lock", "log">> /\ L[2] = <<"unlock", "log">> /\ Program(L, 2)
  BY LoggingIs, LoggingProgram
<1>4. n \in Nat
  BY CountType
<1>5. sigint = L \o e
  BY DEF sigint, stopSafmq
<1> HIDE DEF ts, us, L, n
<1>6. /\ Program(e, Len(ts) + Len(us))
      /\ \A k \in 1 .. Len(ts) + Len(us) : e[k][1] = "stop"
  <2>1. ts \in Seq(ServerThreads) /\ us \in Seq(ServerThreads)
    BY <1>1, <1>2
  <2> QED BY <2>1, Joins
<1> HIDE DEF e
<1>7. Len(ts) + Len(us) = n + 4
  BY <1>1, <1>2, <1>4
<1> DEFINE c == L \o e
           b == n + 4
<1>8. Program(e, b) /\ b \in Nat /\ 2 + b = n + 6
  BY <1>4, <1>6, <1>7
<1> HIDE DEF b
<1>9. Program(c, 2 + b) /\ Consists(c, L, 2, e, b)
  BY <1>3, <1>8, Followed
<1> HIDE DEF c
<1>10. c[1] = L[1] /\ c[2] = L[2]
  <2>1. 1 \in 1 .. 2 /\ 2 \in 1 .. 2
    OBVIOUS
  <2> QED BY <2>1, <1>9 DEF Consists
<1>11. ASSUME NEW k \in 3 .. n + 6 PROVE c[k][1] = "stop"
  <2>1. k - 2 \in 1 .. b /\ k = 2 + (k - 2)
    BY <1>4 DEF b
  <2>2. c[2 + (k - 2)] = e[k - 2]
    BY <2>1, <1>9 DEF Consists
  <2>3. e[k - 2][1] = "stop"
    BY <2>1, <1>6, <1>7 DEF b
  <2> QED BY <2>1, <2>2, <2>3
<1>12. Program(c, n + 6)
  BY <1>8, <1>9
<1>13. sigint = c
  BY <1>5 DEF c
<1> QED BY <1>3, <1>10, <1>11, <1>12, <1>13 DEF n

(* Where the main thread creates, starts, joins and locks.                 *)
LEMMA MainIs ==
  /\ Program(main, 2 * Count + 16)
  /\ \A k \in 1 .. Count + 7 : main[k][1] \in {"new", "configure", "start"}
  /\ main[Count + 8] = <<"lock", "log">> /\ main[Count + 9] = <<"unlock", "log">>
  /\ \A k \in Count + 10 .. 2 * Count + 11 : main[k][1] = "join"
  /\ \A k \in 1 .. Count : main[Count + 11 + k] = <<"join", Forwarders[k]>>
  /\ main[2 * Count + 12] = <<"delete", "forwardthds">>
  /\ main[2 * Count + 13][1] = "join" /\ main[2 * Count + 14][1] = "join"
  /\ main[2 * Count + 15] = <<"lock", "log">>
  /\ main[2 * Count + 16] = <<"unlock", "log">>
<1> DEFINE A == startSafmq
           B == shutdownSafmq
           c == A \o B
           n == Count
           a == n + 9
           b == n + 7
<1>1. /\ Program(A, a) /\ \A k \in 1 .. n + 7 : A[k][1] \in {"new", "configure", "start"}
      /\ A[n + 8] = <<"lock", "log">> /\ A[n + 9] = <<"unlock", "log">>
  BY StartIs DEF Program
<1>2. /\ Program(B, b)
      /\ \A k \in 1 .. n + 2 : B[k][1] = "join"
      /\ \A k \in 1 .. n : B[2 + k] = <<"join", Forwarders[k]>>
      /\ B[n + 3] = <<"delete", "forwardthds">>
      /\ B[n + 4][1] = "join" /\ B[n + 5][1] = "join"
      /\ B[n + 6] = <<"lock", "log">>
      /\ B[n + 7] = <<"unlock", "log">>
  BY ShutdownIs
<1>3. n \in Nat
  BY CountType
<1>4. main = c
  BY DEF main
<1> HIDE DEF A, B, n
<1>5. a \in Nat /\ b \in Nat /\ a + b = 2 * n + 16
  BY <1>3
<1> HIDE DEF a, b
<1>6. Program(c, a + b) /\ Consists(c, A, a, B, b)
  BY <1>1, <1>2, <1>5, Followed
<1> HIDE DEF c
<1>7. ASSUME NEW k \in 1 .. n + 9 PROVE c[k] = A[k]
  BY <1>6 DEF Consists, a
<1>8. ASSUME NEW k \in 1 .. n + 7 PROVE c[n + 9 + k] = B[k]
  BY <1>6 DEF Consists, a, b
<1>9. \A k \in 1 .. n + 7 : c[k][1] \in {"new", "configure", "start"}
  <2> TAKE k \in 1 .. n + 7
  <2>1. k \in 1 .. n + 9
    BY <1>3
  <2> QED BY <2>1, <1>1, <1>7
<1>10. c[n + 8] = <<"lock", "log">> /\ c[n + 9] = <<"unlock", "log">>
  <2>1. n + 8 \in 1 .. n + 9 /\ n + 9 \in 1 .. n + 9
    BY <1>3
  <2> QED BY <2>1, <1>1, <1>7
<1>11. ASSUME NEW k \in n + 10 .. 2 * n + 11 PROVE c[k][1] = "join"
  <2> DEFINE j == k - (n + 9)
  <2>1. j \in 1 .. n + 2 /\ j \in 1 .. n + 7 /\ n + 9 + j = k
    BY <1>3
  <2> HIDE DEF j
  <2>2. c[n + 9 + j] = B[j]
    BY <2>1, <1>8
  <2>3. B[j][1] = "join"
    BY <2>1, <1>2
  <2> QED BY <2>1, <2>2, <2>3
<1>12. ASSUME NEW k \in 1 .. n PROVE c[n + 11 + k] = <<"join", Forwarders[k]>>
  <2> DEFINE j == 2 + k
  <2>1. j \in 1 .. n + 7 /\ n + 9 + j = n + 11 + k
    BY <1>3
  <2>2. B[j] = <<"join", Forwarders[k]>>
    BY <1>2
  <2> HIDE DEF j
  <2>3. c[n + 9 + j] = B[j]
    BY <2>1, <1>8
  <2> QED BY <2>1, <2>2, <2>3
<1>13. c[2 * n + 12] = B[n + 3] /\ c[2 * n + 13] = B[n + 4] /\ c[2 * n + 14] = B[n + 5]
  <2>1. /\ n + 3 \in 1 .. n + 7 /\ n + 9 + (n + 3) = 2 * n + 12
        /\ n + 4 \in 1 .. n + 7 /\ n + 9 + (n + 4) = 2 * n + 13
        /\ n + 5 \in 1 .. n + 7 /\ n + 9 + (n + 5) = 2 * n + 14
    BY <1>3
  <2> QED BY <2>1, <1>8
<1>14. c[2 * n + 15] = B[n + 6] /\ c[2 * n + 16] = B[n + 7]
  <2>1. /\ n + 6 \in 1 .. n + 7 /\ n + 9 + (n + 6) = 2 * n + 15
        /\ n + 7 \in 1 .. n + 7 /\ n + 9 + (n + 7) = 2 * n + 16
    BY <1>3
  <2> QED BY <2>1, <1>8
<1>15. Program(c, 2 * n + 16)
  BY <1>5, <1>6
<1> QED BY <1>2, <1>4, <1>9, <1>10, <1>11, <1>12, <1>13, <1>14, <1>15 DEF n

(* A handler that interrupted the main thread, and where it is.            *)
Frames == [signal : Signals, at : 1 .. Count + 6]

(* The two calls of the mutex of the log.                                  *)
Locks   == <<"lock", "log">>
Unlocks == <<"unlock", "log">>

(* Is the main thread, or the i-th of its handlers, between its two calls? *)
HoldsAt(i) == IF i = 0 THEN ~Returned /\ main[mainPc] = Unlocks
              ELSE sigint[frames[i].at] = Unlocks

(* The mutex is held if somebody is between its two calls, by one at most. *)
LogInv ==
    /\ logHeld \in BOOLEAN
    /\ logHeld <=> \E i \in 0 .. Len(frames) : HoldsAt(i)
    /\ \A i, j \in 0 .. Len(frames) : HoldsAt(i) /\ HoldsAt(j) => i = j

(* Where the main thread and its handlers are; none is left at the end.    *)
ProgramInv ==
    /\ mainPc \in 1 .. 2 * Count + 17 /\ frames \in Seq(Frames)
    /\ Returned => frames = <<>>
    /\ \A i \in DOMAIN frames : frames[i].signal \in sent

(* The types of what the main thread and the others share.                 *)
ThreadInv ==
    /\ sent \subseteq Signals
    /\ at \in [ServerThreads -> Places] /\ stop \in [ServerThreads -> BOOLEAN]
    /\ manager \in BOOLEAN /\ number \in {1, Len(Forwarders)}
    /\ forwardthds \in {"NULL", "allocated", "freed"}
    /\ crashed \in BOOLEAN

(* No session in the registry is being destroyed.                          *)
SessionInv ==
    /\ session \in [Sessions -> Lives] /\ clients \subseteq Sessions
    /\ \A s \in clients : session[s] \in {"running", "not started"}

(* The array is freed after the forwarding threads were joined, in turn.   *)
ArrayInv ==
    /\ \A i \in 1 .. Count : mainPc > Count + 11 + i => at[Forwarders[i]] = "ended"
    /\ forwardthds = "freed" => mainPc > 2 * Count + 12

(* The inductive invariant.                                                *)
LifeInv == ProgramInv /\ LogInv /\ ThreadInv /\ SessionInv /\ ArrayInv

(* The ends of the programs, and the steps with the mutex of the log.      *)
LEMMA Ends ==
  /\ Count \in Nat /\ Count > 0
  /\ Len(main) = 2 * Count + 16 /\ Len(sigint) = Count + 6
  /\ DOMAIN sigint = 1 .. Count + 6
<1>1. Program(sigint, Count + 6) /\ Program(main, 2 * Count + 16)
  BY SigintIs, MainIs
<1>2. sigint \in Seq(Instructions) /\ Len(sigint) = Count + 6 /\ Len(main) = 2 * Count + 16
  BY <1>1 DEF Program
<1> QED BY <1>2, CountType

(* The first parts of the steps of the main thread are told apart.         *)
LEMMA MainLocks ==
  ASSUME NEW k \in 1 .. 2 * Count + 16
  PROVE  /\ main[k] = Locks <=> k \in {Count + 8, 2 * Count + 15}
         /\ main[k] = Unlocks <=> k \in {Count + 9, 2 * Count + 16}
<1>1. Count \in Nat
  BY Ends
<1>2. Locks[1] = "lock" /\ Unlocks[1] = "unlock" /\ Locks # Unlocks
  BY DEF Locks, Unlocks
<1>3. CASE k \in 1 .. Count + 7
  <2>1. main[k][1] \in {"new", "configure", "start"}
    BY <1>3, MainIs
  <2>2. k \notin {Count + 8, 2 * Count + 15, Count + 9, 2 * Count + 16}
    BY <1>1, <1>3
  <2> QED BY <2>1, <2>2, <1>2
<1>4. CASE k \in Count + 10 .. 2 * Count + 11 \/ k \in {2 * Count + 12, 2 * Count + 13, 2 * Count + 14}
  <2>1. main[k][1] \in {"join", "delete"}
    <3>1. main[2 * Count + 12][1] = "delete"
      BY MainIs
    <3> QED BY <1>4, <3>1, MainIs
  <2>2. k \notin {Count + 8, 2 * Count + 15, Count + 9, 2 * Count + 16}
    BY <1>1, <1>4
  <2> QED BY <2>1, <2>2, <1>2
<1>5. CASE k \in {Count + 8, 2 * Count + 15}
  <2>1. main[k] = Locks
    BY <1>5, MainIs DEF Locks
  <2>2. k \notin {Count + 9, 2 * Count + 16}
    BY <1>1, <1>5
  <2> QED BY <1>2, <1>5, <2>1, <2>2
<1>6. CASE k \in {Count + 9, 2 * Count + 16}
  <2>1. main[k] = Unlocks
    BY <1>6, MainIs DEF Unlocks
  <2>2. k \notin {Count + 8, 2 * Count + 15}
    BY <1>1, <1>6
  <2> QED BY <1>2, <1>6, <2>1, <2>2
<1>7. \/ k \in 1 .. Count + 7 \/ k \in Count + 10 .. 2 * Count + 11
      \/ k \in {2 * Count + 12, 2 * Count + 13, 2 * Count + 14}
      \/ k \in {Count + 8, 2 * Count + 15} \/ k \in {Count + 9, 2 * Count + 16}
  BY <1>1
<1> QED BY <1>3, <1>4, <1>5, <1>6, <1>7

(* The same of the steps of a handler.                                     *)
LEMMA SigintLocks ==
  ASSUME NEW k \in 1 .. Count + 6
  PROVE  (sigint[k] = Locks <=> k = 1) /\ (sigint[k] = Unlocks <=> k = 2)
<1>1. Count \in Nat
  BY Ends
<1>2. Locks[1] = "lock" /\ Unlocks[1] = "unlock" /\ Locks # Unlocks
  BY DEF Locks, Unlocks
<1>3. sigint[1] = Locks /\ sigint[2] = Unlocks
  BY SigintIs DEF Locks, Unlocks
<1>4. CASE k \in 3 .. Count + 6
  <2>1. sigint[k][1] = "stop"
    BY <1>4, SigintIs
  <2> QED BY <2>1, <1>1, <1>2, <1>4
<1>5. k \in 3 .. Count + 6 \/ k = 1 \/ k = 2
  BY <1>1
<1> QED BY <1>2, <1>3, <1>4, <1>5

(* A handler only locks, unlocks and stops.                                *)
LEMMA HandlerSteps ==
  ASSUME NEW k \in 1 .. Count + 6
  PROVE  sigint[k][1] \in {"lock", "unlock", "stop"}
<1>1. Count \in Nat
  BY Ends
<1>2. k \in 3 .. Count + 6 \/ k = 1 \/ k = 2
  BY <1>1
<1> QED BY <1>2, SigintIs

(* The handlers that run, as a sequence of so many.                        *)
LEMMA FramesType ==
  ASSUME ProgramInv, NEW n, n = Len(frames)
  PROVE  /\ n \in Nat /\ frames \in Seq(Frames) /\ DOMAIN frames = 1 .. n
         /\ \A i \in 1 .. n : /\ frames[i] \in Frames
                              /\ frames[i].at \in 1 .. Count + 6
                              /\ frames[i].signal \in sent
         /\ Interrupted <=> n # 0
         /\ n = 0 => frames = <<>>
<1>1. frames \in Seq(Frames)
  BY DEF ProgramInv
<1>2. n \in Nat /\ DOMAIN frames = 1 .. n /\ (n = 0 <=> frames = <<>>)
  BY <1>1, EmptySeq
<1>3. \A i \in 1 .. n : frames[i] \in Frames
  BY <1>1, <1>2
<1> QED BY <1>1, <1>2, <1>3 DEF ProgramInv, Frames, Interrupted

(* A step of the main thread, or of its last handler, moves nobody else.   *)
LEMMA AdvanceHolds ==
  ASSUME ProgramInv, ~ Over, Advance, UNCHANGED sent, NEW n, n = Len(frames)
  PROVE  /\ n \in Nat /\ ProgramInv'
         /\ HoldsAt(n) <=> Current = Unlocks
         /\ \/ Len(frames') = n /\ (HoldsAt(n)' <=> Current = Locks)
            \/ Len(frames') = n - 1 /\ Current \notin {Locks, Unlocks} /\ n # 0
         /\ \A i \in 0 .. n : i # n => (HoldsAt(i)' <=> HoldsAt(i))
<1>0. /\ Count \in Nat /\ Len(main) = 2 * Count + 16 /\ Len(sigint) = Count + 6
      /\ mainPc \in 1 .. 2 * Count + 17 /\ ~ Returned /\ mainPc \in 1 .. 2 * Count + 16
  BY Ends DEF ProgramInv, Over, Returned
<1>1. /\ n \in Nat /\ frames \in Seq(Frames) /\ DOMAIN frames = 1 .. n
      /\ \A i \in 1 .. n : /\ frames[i] \in Frames
                           /\ frames[i].at \in 1 .. Count + 6
                           /\ frames[i].signal \in sent
      /\ Interrupted <=> n # 0
      /\ n = 0 => frames = <<>>
  BY FramesType
<1>2. CASE n = 0
  <2>1. mainPc' = mainPc + 1 /\ frames' = frames /\ Current = main[mainPc]
    BY <1>1, <1>2 DEF Advance, Current
  <2>2. ProgramInv'
    <3>1. mainPc' \in 1 .. 2 * Count + 17 /\ frames' = <<>>
      BY <2>1, <1>0, <1>1, <1>2
    <3> QED BY <3>1, <2>1 DEF ProgramInv
  <2>3. HoldsAt(n) <=> Current = Unlocks
    BY <1>0, <1>2, <2>1 DEF HoldsAt
  <2>4. HoldsAt(n)' <=> Current = Locks
    <3>1. HoldsAt(n)' <=> ~ Returned' /\ main[mainPc + 1] = Unlocks
      BY <1>2, <2>1 DEF HoldsAt
    <3>2. Returned' <=> mainPc = 2 * Count + 16
      BY <1>0, <2>1 DEF Returned
    <3>3. CASE mainPc = 2 * Count + 16
      <4>1. mainPc \notin {Count + 8, 2 * Count + 15}
        BY <1>0, <3>3
      <4> QED BY <3>1, <3>2, <3>3, <4>1, <1>0, <2>1, MainLocks
    <3>4. CASE mainPc # 2 * Count + 16
      <4>1. mainPc + 1 \in 1 .. 2 * Count + 16
        BY <1>0, <3>4
      <4>2. main[mainPc + 1] = Unlocks <=> mainPc + 1 \in {Count + 9, 2 * Count + 16}
        BY <4>1, MainLocks
      <4>3. main[mainPc] = Locks <=> mainPc \in {Count + 8, 2 * Count + 15}
        BY <1>0, MainLocks
      <4>4. mainPc + 1 \in {Count + 9, 2 * Count + 16} <=> mainPc \in {Count + 8, 2 * Count + 15}
        BY <1>0
      <4> QED BY <3>1, <3>2, <3>4, <4>2, <4>3, <4>4, <2>1
    <3> QED BY <3>3, <3>4
  <2> QED BY <1>1, <1>2, <2>1, <2>2, <2>3, <2>4
<1>3. CASE n # 0
  <2> DEFINE p == frames[n].at
  <2>1. /\ n \in 1 .. n /\ p \in 1 .. Count + 6 /\ Current = sigint[p] /\ mainPc' = mainPc
        /\ frames' = IF p = Count + 6 THEN Front(frames)
                     ELSE [frames EXCEPT ![n].at = p + 1]
    BY <1>0, <1>1, <1>3 DEF Current, Top, Advance
  <2>2. HoldsAt(n) <=> Current = Unlocks
    BY <1>3, <2>1 DEF HoldsAt
  <2>3. CASE p = Count + 6
    <3>1. /\ frames' \in Seq(Frames) /\ Len(frames') = n - 1
          /\ \A i \in 1 .. n - 1 : frames'[i] = frames[i]
      BY <1>1, <1>3, <2>1, <2>3 DEF Front
    <3>2. Current \notin {Locks, Unlocks}
      <4>1. p # 1 /\ p # 2
        BY <1>0, <2>3
      <4> QED BY <2>1, <4>1, SigintLocks
    <3>3. ASSUME NEW i \in 0 .. n, i # n PROVE HoldsAt(i)' <=> HoldsAt(i)
      <4>1. i = 0 \/ frames'[i] = frames[i]
        BY <1>1, <3>1, <3>3
      <4> QED BY <2>1, <4>1 DEF HoldsAt, Returned
    <3>4. ProgramInv'
      <4>1. DOMAIN frames' = 1 .. n - 1
        BY <3>1
      <4>2. \A i \in DOMAIN frames' : frames'[i].signal \in sent
        BY <4>1, <3>1, <1>1
      <4> QED BY <4>2, <3>1, <2>1, <1>0 DEF ProgramInv, Returned
    <3> QED BY <1>1, <1>3, <2>2, <3>1, <3>2, <3>3, <3>4
  <2>4. CASE p # Count + 6
    <3>1. frames' = [frames EXCEPT ![n].at = p + 1] /\ p + 1 \in 1 .. Count + 6
      BY <1>0, <2>1, <2>4
    <3> DEFINE x == [frames[n] EXCEPT !.at = p + 1]
    <3>2. x \in Frames /\ x.at = p + 1 /\ x.signal = frames[n].signal
      <4>1. frames[n] \in Frames
        BY <1>1, <2>1
      <4> HIDE DEF p
      <4> QED BY <3>1, <4>1 DEF Frames
    <3>3. frames' = [frames EXCEPT ![n] = x]
      <4> HIDE DEF p
      <4> QED BY <3>1
    <3> HIDE DEF x
    <3>4. /\ frames' \in Seq(Frames) /\ Len(frames') = n /\ DOMAIN frames' = 1 .. n
          /\ frames'[n] = x
          /\ \A i \in 1 .. n : i # n => frames'[i] = frames[i]
      <4>1. n \in 1 .. Len(frames) /\ x \in Frames /\ frames \in Seq(Frames)
        BY <1>1, <2>1, <3>2
      <4> HIDE DEF p
      <4>2. /\ frames' \in Seq(Frames) /\ Len(frames') = Len(frames) /\ frames'[n] = x
            /\ \A i \in 1 .. Len(frames) : i # n => frames'[i] = frames[i]
        BY <4>1, <3>3, ExceptSeq
      <4> QED BY <4>2
    <3>5. frames'[n].at = p + 1 /\ frames'[n].signal = frames[n].signal
      BY <3>2, <3>4
    <3>6. HoldsAt(n)' <=> Current = Locks
      <4>1. HoldsAt(n)' <=> sigint[p + 1] = Unlocks
        BY <1>3, <3>5 DEF HoldsAt
      <4>2. p + 1 = 2 <=> p = 1
        BY <2>1, <1>0
      <4> QED BY <4>1, <4>2, <3>1, <2>1, SigintLocks
    <3>7. ASSUME NEW i \in 0 .. n, i # n PROVE HoldsAt(i)' <=> HoldsAt(i)
      <4>1. i = 0 \/ frames'[i] = frames[i]
        BY <1>1, <3>4, <3>7
      <4> QED BY <2>1, <4>1 DEF HoldsAt, Returned
    <3>8. ProgramInv'
      <4>1. \A i \in DOMAIN frames' : frames'[i].signal \in sent
        BY <3>4, <3>5, <1>1
      <4> QED BY <4>1, <3>4, <2>1, <1>0 DEF ProgramInv, Returned
    <3> QED BY <1>1, <2>2, <3>4, <3>6, <3>7, <3>8
  <2> QED BY <2>3, <2>4
<1> QED BY <1>2, <1>3

(* Only the one that runs takes the mutex, and nobody else holds it then.  *)
LEMMA LogKept ==
  ASSUME ProgramInv, LogInv, ~ Over, Advance, UNCHANGED sent,
         \/ Current = Locks /\ ~ logHeld /\ logHeld' = TRUE
         \/ Current = Unlocks /\ logHeld' = FALSE
         \/ Current \notin {Locks, Unlocks} /\ logHeld' = logHeld
  PROVE  ProgramInv' /\ LogInv'
<1>0. PICK n : n = Len(frames)
  OBVIOUS
<1>1. /\ n \in Nat /\ ProgramInv'
      /\ HoldsAt(n) <=> Current = Unlocks
      /\ \/ Len(frames') = n /\ (HoldsAt(n)' <=> Current = Locks)
         \/ Len(frames') = n - 1 /\ Current \notin {Locks, Unlocks} /\ n # 0
      /\ \A i \in 0 .. n : i # n => (HoldsAt(i)' <=> HoldsAt(i))
  BY <1>0, AdvanceHolds
<1>2. /\ logHeld \in BOOLEAN
      /\ logHeld <=> \E i \in 0 .. n : HoldsAt(i)
      /\ \A i, j \in 0 .. n : HoldsAt(i) /\ HoldsAt(j) => i = j
  BY <1>0 DEF LogInv
<1>3. Locks # Unlocks /\ n \in 0 .. n
  BY <1>1 DEF Locks, Unlocks
<1> DEFINE n1 == Len(frames')
<1>4. n1 \in Nat /\ n1 <= n
  BY <1>1
<1>5. CASE Current = Locks /\ ~ logHeld /\ logHeld' = TRUE
  <2>1. n1 = n /\ HoldsAt(n)'
    BY <1>1, <1>5
  <2>2. ASSUME NEW i \in 0 .. n, HoldsAt(i)' PROVE i = n
    BY <1>1, <1>2, <1>5, <2>2
  <2>3. LogInv'
    BY <1>3, <1>5, <2>1, <2>2 DEF LogInv
  <2> QED BY <1>1, <2>3
<1>6. CASE Current = Unlocks /\ logHeld' = FALSE
  <2>1. n1 = n /\ ~ HoldsAt(n)' /\ HoldsAt(n)
    BY <1>1, <1>3, <1>6
  <2>2. ASSUME NEW i \in 0 .. n PROVE ~ HoldsAt(i)'
    BY <1>1, <1>2, <1>3, <2>1
  <2>3. LogInv'
    BY <1>6, <2>1, <2>2 DEF LogInv
  <2> QED BY <1>1, <2>3
<1>7. CASE Current \notin {Locks, Unlocks} /\ logHeld' = logHeld
  <2>1. ~ HoldsAt(n) /\ (n1 = n => ~ HoldsAt(n)') /\ n1 \in {n, n - 1}
    BY <1>1, <1>7
  <2>2. ASSUME NEW i \in 0 .. n1 PROVE i \in 0 .. n /\ (HoldsAt(i)' <=> HoldsAt(i))
    <3>1. CASE i = n
      <4>1. n1 = n
        BY <1>1, <2>1, <3>1
      <4> QED BY <2>1, <3>1, <4>1, <1>3
    <3>2. CASE i # n
      BY <1>1, <1>4, <3>2
    <3> QED BY <3>1, <3>2
  <2>3. ASSUME NEW i \in 0 .. n, HoldsAt(i) PROVE i \in 0 .. n1
    <3>1. i # n
      BY <2>1, <2>3
    <3> QED BY <1>1, <2>1, <3>1
  <2>4. logHeld' <=> \E i \in 0 .. n1 : HoldsAt(i)'
    BY <1>2, <1>7, <2>2, <2>3
  <2>5. \A i, j \in 0 .. n1 : HoldsAt(i)' /\ HoldsAt(j)' => i = j
    BY <1>2, <2>2
  <2>6. LogInv'
    BY <1>2, <1>7, <2>4, <2>5 DEF LogInv
  <2> QED BY <1>1, <2>6
<1> QED BY <1>5, <1>6, <1>7

(* A handler that begins does not hold the mutex.                          *)
LEMMA LogSignalled ==
  ASSUME ProgramInv, LogInv, NEW g \in Signals, Signal(g)
  PROVE  ProgramInv' /\ LogInv'
<1>0. PICK n : n = Len(frames)
  OBVIOUS
<1>1. /\ n \in Nat /\ frames \in Seq(Frames) /\ DOMAIN frames = 1 .. n
      /\ \A i \in 1 .. n : frames[i].signal \in sent
  BY <1>0, FramesType
<1>2. Count \in Nat /\ 1 \in 1 .. Count + 6
  BY Ends
<1> DEFINE x == [signal |-> g, at |-> 1]
<1>3. x \in Frames /\ x.at = 1 /\ x.signal = g
  BY <1>2 DEF Frames
<1>4. /\ frames' = Append(frames, x) /\ mainPc' = mainPc /\ logHeld' = logHeld
      /\ ~ Returned /\ sent \subseteq sent' /\ g \in sent'
  BY DEF Signal, Over
<1> HIDE DEF x
<1>5. /\ frames' \in Seq(Frames) /\ Len(frames') = n + 1 /\ DOMAIN frames' = 1 .. n + 1
      /\ frames'[n + 1] = x
      /\ \A i \in 1 .. n : frames'[i] = frames[i]
  <2>1. Append(frames, x) \in Seq(Frames) /\ Len(Append(frames, x)) = Len(frames) + 1
    BY <1>1, <1>3, AppendProperties
  <2>2. /\ \A i \in 1 .. Len(frames) : Append(frames, x)[i] = frames[i]
        /\ Append(frames, x)[Len(frames) + 1] = x
    BY <1>1, <1>3, AppendProperties
  <2> QED BY <1>0, <1>4, <2>1, <2>2
<1>6. ProgramInv'
  <2>1. ASSUME NEW i \in DOMAIN frames' PROVE frames'[i].signal \in sent'
    <3>1. i \in 1 .. n \/ i = n + 1
      BY <1>1, <1>5
    <3> QED BY <3>1, <1>1, <1>3, <1>4, <1>5
  <2> QED BY <2>1, <1>4, <1>5 DEF ProgramInv, Returned
<1>7. ASSUME NEW i \in 0 .. n PROVE HoldsAt(i)' <=> HoldsAt(i)
  <2>1. i = 0 \/ i \in 1 .. n
    BY <1>1
  <2> QED BY <2>1, <1>4, <1>5 DEF HoldsAt, Returned
<1>8. ~ HoldsAt(n + 1)'
  <2>1. n + 1 # 0
    BY <1>1
  <2>2. sigint[1] # Unlocks
    BY <1>2, SigintLocks
  <2> QED BY <2>1, <2>2, <1>3, <1>5 DEF HoldsAt
<1>9. \A i \in 0 .. n + 1 : i \in 0 .. n \/ i = n + 1
  BY <1>1
<1>10. \A i \in 0 .. n : i \in 0 .. n + 1
  BY <1>1
<1>11. LogInv'
  BY <1>0, <1>4, <1>5, <1>7, <1>8, <1>9, <1>10 DEF LogInv
<1> QED BY <1>6, <1>11

(* Which instruction of the main thread stands where.                      *)
LEMMA Placed ==
  ASSUME NEW k \in 1 .. 2 * Count + 16, NEW op, NEW t, main[k] = <<op, t>>
  PROVE  /\ op \in {"new", "configure", "start"} => k <= Count + 7
         /\ op = "delete" => k = 2 * Count + 12
         /\ \A i \in 1 .. Count : k = Count + 11 + i => op = "join" /\ t = Forwarders[i]
<1>0. Count \in Nat /\ main[k][1] = op
  BY Ends
<1>1. CASE k \in 1 .. Count + 7
  <2>1. op \in {"new", "configure", "start"}
    BY <1>0, <1>1, MainIs
  <2>2. k <= Count + 7 /\ \A i \in 1 .. Count : k # Count + 11 + i
    BY <1>0, <1>1
  <2> QED BY <2>1, <2>2
<1>2. CASE k \in {Count + 8, Count + 9}
  <2>1. op \in {"lock", "unlock"}
    BY <1>0, <1>2, MainIs
  <2>2. \A i \in 1 .. Count : k # Count + 11 + i
    BY <1>0, <1>2
  <2> QED BY <2>1, <2>2
<1>3. CASE k \in Count + 10 .. 2 * Count + 11
  <2>1. op = "join"
    BY <1>0, <1>3, MainIs
  <2>2. ASSUME NEW i \in 1 .. Count, k = Count + 11 + i PROVE t = Forwarders[i]
    BY <2>2, MainIs
  <2> QED BY <2>1, <2>2
<1>4. CASE k \in 2 * Count + 12 .. 2 * Count + 16
  <2>1. op \in {"delete", "join", "lock", "unlock"} /\ (op = "delete" => k = 2 * Count + 12)
    <3>1. k \in {2 * Count + 12, 2 * Count + 13, 2 * Count + 14, 2 * Count + 15, 2 * Count + 16}
      BY <1>0, <1>4
    <3>2. /\ main[2 * Count + 12][1] = "delete" /\ main[2 * Count + 13][1] = "join"
          /\ main[2 * Count + 14][1] = "join" /\ main[2 * Count + 15][1] = "lock"
          /\ main[2 * Count + 16][1] = "unlock"
      BY MainIs
    <3> QED BY <1>0, <3>1, <3>2
  <2>2. \A i \in 1 .. Count : k # Count + 11 + i
    BY <1>0, <1>4
  <2> QED BY <2>1, <2>2
<1>5. \/ k \in 1 .. Count + 7 \/ k \in {Count + 8, Count + 9}
      \/ k \in Count + 10 .. 2 * Count + 11 \/ k \in 2 * Count + 12 .. 2 * Count + 16
  BY <1>0
<1> QED BY <1>1, <1>2, <1>3, <1>4, <1>5

(* A step of a handler, or one of the main thread.                         *)
LEMMA StepIs ==
  ASSUME ProgramInv, NEW op, NEW t, Step(op, t)
  PROVE  \/ mainPc' = mainPc /\ op \in {"lock", "unlock", "stop"}
         \/ /\ mainPc' = mainPc + 1 /\ mainPc \in 1 .. 2 * Count + 16
            /\ main[mainPc] = <<op, t>>
<1>0. PICK n : n = Len(frames)
  OBVIOUS
<1>1. /\ Interrupted <=> n # 0
      /\ n \in Nat /\ \A i \in 1 .. n : frames[i].at \in 1 .. Count + 6
  BY <1>0, FramesType
<1>2. mainPc \in 1 .. 2 * Count + 16
  BY Ends DEF Step, Over, Returned, ProgramInv
<1>3. CASE Interrupted
  <2>1. mainPc' = mainPc
    BY <1>3 DEF Step, Advance
  <2>2. Top.at \in 1 .. Count + 6 /\ sigint[Top.at] = <<op, t>>
    <3>1. n \in 1 .. n
      BY <1>1, <1>3
    <3> QED BY <3>1, <1>0, <1>1, <1>3 DEF Step, Current, Top
  <2>3. sigint[Top.at][1] \in {"lock", "unlock", "stop"}
    BY <2>2, HandlerSteps
  <2> QED BY <2>1, <2>2, <2>3
<1>4. CASE ~ Interrupted
  BY <1>2, <1>4 DEF Step, Advance, Current
<1> QED BY <1>3, <1>4

(* A step of the main thread or of a handler keeps what is known of the    *)
(* forwarding threads: one that joined was waited for, and the array goes  *)
(* after all of them.                                                      *)
LEMMA ArrayKept ==
  ASSUME ProgramInv, ArrayInv, NEW op, NEW t, Step(op, t),
         at' = at \/ op = "start",
         op = "join" => at[t] = "ended",
         forwardthds' \in {forwardthds, "allocated"} \/ op = "delete"
  PROVE  ArrayInv'
<1>0. Count \in Nat /\ mainPc \in Nat
  BY Ends DEF ProgramInv
<1>1. CASE mainPc' = mainPc /\ op \in {"lock", "unlock", "stop"}
  BY <1>1 DEF ArrayInv
<1>2. CASE /\ mainPc' = mainPc + 1 /\ mainPc \in 1 .. 2 * Count + 16
           /\ main[mainPc] = <<op, t>>
  <2>1. /\ op \in {"new", "configure", "start"} => mainPc <= Count + 7
        /\ op = "delete" => mainPc = 2 * Count + 12
        /\ \A i \in 1 .. Count : mainPc = Count + 11 + i => op = "join" /\ t = Forwarders[i]
    BY <1>2, Placed
  <2>2. ASSUME NEW i \in 1 .. Count, mainPc' > Count + 11 + i PROVE at'[Forwarders[i]] = "ended"
    <3>1. mainPc >= Count + 11 + i
      BY <1>0, <1>2, <2>2
    <3>2. op # "start"
      BY <1>0, <2>1, <3>1
    <3>3. at[Forwarders[i]] = "ended"
      <4>1. CASE mainPc = Count + 11 + i
        BY <2>1, <4>1
      <4>2. CASE mainPc > Count + 11 + i
        BY <4>2 DEF ArrayInv
      <4> QED BY <1>0, <3>1, <4>1, <4>2
    <3> QED BY <3>2, <3>3
  <2>3. ASSUME forwardthds' = "freed" PROVE mainPc' > 2 * Count + 12
    <3>1. CASE op = "delete"
      BY <1>0, <1>2, <2>1, <3>1
    <3>2. CASE op # "delete"
      <4>1. mainPc > 2 * Count + 12
        BY <2>3, <3>2 DEF ArrayInv
      <4> QED BY <1>0, <1>2, <4>1
    <3> QED BY <3>1, <3>2
  <2> QED BY <2>2, <2>3 DEF ArrayInv
<1> QED BY <1>1, <1>2, StepIs

(* A thread that ended stays as it is.                                     *)
LEMMA ArrayAlone ==
  ASSUME ArrayInv, ProgramInv, UNCHANGED <<mainPc, forwardthds>>,
         \A t \in ServerThreads : at[t] = "ended" => at'[t] = "ended"
  PROVE  ArrayInv'
<1>1. \A i \in 1 .. Count : Forwarders[i] \in ServerThreads
  <2> DEFINE F == Forwarders
  <2>1. F \in Seq(ServerThreads) /\ Len(F) = Count
    BY CountType DEF Count
  <2> HIDE DEF F
  <2>2. \A i \in 1 .. Count : F[i] \in ServerThreads
    BY <2>1
  <2> QED BY <2>2 DEF F
<1> QED BY <1>1 DEF ArrayInv

(* Nothing is started at first.                                            *)
LEMMA LifeInitKeeps == LifeInit => LifeInv
<1> SUFFICES ASSUME LifeInit PROVE LifeInv
  OBVIOUS
<1>0. Count \in Nat /\ Count > 0 /\ Len(main) = 2 * Count + 16
  BY Ends
<1>1. ProgramInv
  BY <1>0 DEF LifeInit, ProgramInv
<1>2. LogInv
  <2>1. Len(frames) = 0
    BY DEF LifeInit
  <2>2. main[1] # Unlocks
    <3>1. 1 \in 1 .. 2 * Count + 16 /\ 1 \notin {Count + 9, 2 * Count + 16}
      BY <1>0
    <3> QED BY <3>1, MainLocks
  <2>3. ~ HoldsAt(0)
    BY <2>2 DEF HoldsAt, LifeInit
  <2>4. \A i \in 0 .. 0 : i = 0
    OBVIOUS
  <2> QED BY <2>1, <2>3, <2>4 DEF LogInv, LifeInit
<1>3. ThreadInv
  BY DEF ThreadInv, LifeInit, Places
<1>4. SessionInv
  BY DEF SessionInv, LifeInit, Lives
<1>5. ArrayInv
  BY <1>0 DEF ArrayInv, LifeInit
<1> QED BY <1>1, <1>2, <1>3, <1>4, <1>5 DEF LifeInv

(* Steps of the main thread and of its handlers.                           *)
LEMMA MainKeeps == LifeInv /\ MainNext => LifeInv'
<1> SUFFICES ASSUME LifeInv, MainNext PROVE LifeInv'
  OBVIOUS
<1> USE DEF LifeInv
<1>0. Locks = <<"lock", "log">> /\ Unlocks = <<"unlock", "log">>
  BY DEF Locks, Unlocks
<1>1. CASE LogLock
  <2>1. Step("lock", "log") /\ Current = Locks /\ ~ Over /\ Advance
    BY <1>0, <1>1 DEF LogLock, Step
  <2>2. ProgramInv' /\ LogInv'
    BY <1>1, <2>1, LogKept DEF LogLock
  <2>3. ArrayInv'
    BY <1>1, <2>1, ArrayKept DEF LogLock, threadVars, arrayVars
  <2>4. ThreadInv' /\ SessionInv'
    BY <1>1 DEF LogLock, threadVars, arrayVars, sessionVars, ThreadInv, SessionInv
  <2> QED BY <2>2, <2>3, <2>4
<1>2. CASE LogUnlock
  <2>1. Step("unlock", "log") /\ Current = Unlocks /\ ~ Over /\ Advance
    BY <1>0, <1>2 DEF LogUnlock, Step
  <2>2. ProgramInv' /\ LogInv'
    BY <1>2, <2>1, LogKept DEF LogUnlock
  <2>3. ArrayInv'
    BY <1>2, <2>1, ArrayKept DEF LogUnlock, threadVars, arrayVars
  <2>4. ThreadInv' /\ SessionInv'
    BY <1>2 DEF LogUnlock, threadVars, arrayVars, sessionVars, ThreadInv, SessionInv
  <2> QED BY <2>2, <2>3, <2>4
<1>3. ASSUME NEW op, NEW t, Step(op, t), op \notin {"lock", "unlock"},
             UNCHANGED <<sent, logHeld>>
      PROVE  ProgramInv' /\ LogInv'
  <2>1. Current = <<op, t>> /\ ~ Over /\ Advance
    BY <1>3 DEF Step
  <2>2. Current \notin {Locks, Unlocks}
    <3>1. <<op, t>>[1] = op /\ Locks[1] = "lock" /\ Unlocks[1] = "unlock"
      BY <1>0
    <3> QED BY <1>3, <2>1, <3>1
  <2> QED BY <1>3, <2>1, <2>2, LogKept
<1>4. CASE New
  <2>1. UNCHANGED <<sent, logHeld, at, stop, session, clients, crashed>>
    BY <1>4 DEF New, threadVars, sessionVars
  <2>2. PICK op \in {"new", "configure", "delete"} : \E t :
          /\ Step(op, t) /\ manager' \in {manager, TRUE} /\ number' \in {number, Len(Forwarders)}
          /\ forwardthds' \in {forwardthds, "allocated"} \/ op = "delete"
          /\ forwardthds' \in {forwardthds, "allocated", "freed"}
    BY <1>4 DEF New
  <2>3. PICK t :
          /\ Step(op, t) /\ manager' \in {manager, TRUE} /\ number' \in {number, Len(Forwarders)}
          /\ forwardthds' \in {forwardthds, "allocated"} \/ op = "delete"
          /\ forwardthds' \in {forwardthds, "allocated", "freed"}
    BY <2>2
  <2>4. ProgramInv' /\ LogInv'
    BY <1>3, <2>1, <2>3
  <2>5. ArrayInv'
    BY <2>1, <2>3, ArrayKept
  <2>6. ThreadInv' /\ SessionInv'
    BY <2>1, <2>3 DEF ThreadInv, SessionInv
  <2> QED BY <2>4, <2>5, <2>6
<1>5. ASSUME NEW t \in ServerThreads, Start(t) PROVE LifeInv'
  <2>1. Step("start", t) /\ UNCHANGED <<stop, sent, logHeld, arrayVars, sessionVars, crashed>>
    BY <1>5 DEF Start
  <2>2. ProgramInv' /\ LogInv'
    BY <1>3, <2>1
  <2>3. ArrayInv'
    BY <2>1, ArrayKept DEF arrayVars
  <2>4. at' \in [ServerThreads -> Places]
    BY <1>5 DEF Start, ThreadInv, Places
  <2>5. ThreadInv' /\ SessionInv'
    BY <2>1, <2>4 DEF ThreadInv, SessionInv, arrayVars, sessionVars
  <2> QED BY <2>2, <2>3, <2>5
<1>6. ASSUME NEW t \in ServerThreads, Join(t) PROVE LifeInv'
  <2>1. /\ Step("join", t) /\ at[t] = "ended"
        /\ UNCHANGED <<sent, logHeld, at, stop, arrayVars, sessionVars, crashed>>
    BY <1>6 DEF Join, threadVars
  <2>2. ProgramInv' /\ LogInv'
    BY <1>3, <2>1
  <2>3. ArrayInv'
    BY <2>1, ArrayKept DEF arrayVars
  <2>4. ThreadInv' /\ SessionInv'
    BY <2>1 DEF ThreadInv, SessionInv, arrayVars, sessionVars
  <2> QED BY <2>2, <2>3, <2>4
<1>7. ASSUME NEW t \in ServerThreads, Stop(t) PROVE LifeInv'
  <2>1. Step("stop", t) /\ UNCHANGED <<at, sent, logHeld, arrayVars, sessionVars>>
    BY <1>7 DEF Stop
  <2>2. ProgramInv' /\ LogInv'
    BY <1>3, <2>1
  <2>3. ArrayInv'
    BY <2>1, ArrayKept DEF arrayVars
  <2>4. stop' \in [ServerThreads -> BOOLEAN] /\ crashed' \in BOOLEAN
    BY <1>7 DEF Stop, ThreadInv
  <2>5. ThreadInv' /\ SessionInv'
    BY <2>1, <2>4 DEF ThreadInv, SessionInv, arrayVars, sessionVars
  <2> QED BY <2>2, <2>3, <2>5
<1> QED BY <1>1, <1>2, <1>4, <1>5, <1>6, <1>7 DEF MainNext

(* Steps of the other threads: they leave the main thread alone.           *)
LEMMA OthersKeep ==
  ASSUME LifeInv, OthersUnchanged, SessionInv',
         at' \in [ServerThreads -> Places],
         \A t \in ServerThreads : at[t] = "ended" => at'[t] = "ended"
  PROVE  LifeInv'
<1>1. /\ mainPc' = mainPc /\ frames' = frames /\ sent' = sent /\ logHeld' = logHeld
      /\ stop' = stop /\ manager' = manager /\ forwardthds' = forwardthds
      /\ number' = number /\ crashed' = crashed
  BY DEF OthersUnchanged, programVars, arrayVars
<1>2. ProgramInv' /\ LogInv'
  BY <1>1 DEF LifeInv, ProgramInv, LogInv, HoldsAt, Returned
<1>3. ThreadInv'
  BY <1>1 DEF LifeInv, ThreadInv
<1>4. ArrayInv'
  BY <1>1, ArrayAlone DEF LifeInv
<1> QED BY <1>2, <1>3, <1>4 DEF LifeInv

(* A step of the loop of a thread, which is not taken by one that ended.   *)
LEMMA ThreadKeeps ==
  ASSUME LifeInv, NEW t \in ServerThreads, ThreadNext(t)
  PROVE  LifeInv'
<1>0. /\ at \in [ServerThreads -> Places] /\ session \in [Sessions -> Lives]
      /\ clients \subseteq Sessions
      /\ \A s \in clients : session[s] \in {"running", "not started"}
  BY DEF LifeInv, ThreadInv, SessionInv
<1>1. \E place \in Places : at[t] # "ended" /\ MoveOn(t, place)
  BY DEF ThreadNext, Check, Wait, Work, Accept, Reject, AcceptFails, Places
<1>2. /\ at' \in [ServerThreads -> Places]
      /\ \A x \in ServerThreads : at[x] = "ended" => at'[x] = "ended"
  BY <1>0, <1>1 DEF MoveOn
<1>3. OthersUnchanged
  BY DEF ThreadNext, Check, Wait, Work, Accept, Reject, AcceptFails
<1>4. SessionInv'
  <2>1. CASE UNCHANGED sessionVars
    BY <1>0, <2>1 DEF sessionVars, SessionInv
  <2>2. CASE \E s \in Sessions : Accept(t, s)
    <3>1. PICK s \in Sessions : Accept(t, s)
      BY <2>2
    <3>2. PICK life \in {"running", "not started"} : session' = [session EXCEPT ![s] = life]
      BY <3>1 DEF Accept
    <3>3. session' \in [Sessions -> Lives] /\ session'[s] = life
      BY <1>0, <3>2 DEF Lives
    <3>4. \A r \in Sessions : r # s => session'[r] = session[r]
      BY <1>0, <3>2
    <3>5. clients' = clients \cup {s}
      BY <3>1 DEF Accept
    <3> QED BY <1>0, <3>3, <3>4, <3>5 DEF SessionInv
  <2> QED BY <2>1, <2>2 DEF ThreadNext, Check, Wait, Work, Reject, AcceptFails
<1> QED BY <1>2, <1>3, <1>4, OthersKeep

(* A session leaves the registry before it is destroyed.                   *)
LEMMA SessionKeeps ==
  ASSUME LifeInv, NEW s \in Sessions, Unregister(s) \/ Free(s)
  PROVE  LifeInv'
<1>0. /\ at \in [ServerThreads -> Places] /\ session \in [Sessions -> Lives]
      /\ clients \subseteq Sessions
      /\ \A r \in clients : session[r] \in {"running", "not started"}
  BY DEF LifeInv, ThreadInv, SessionInv
<1>1. at' = at /\ OthersUnchanged
  BY DEF Unregister, Free
<1>2. CASE Unregister(s)
  <2>1. clients' = clients \ {s} /\ session' = [session EXCEPT ![s] = "unregistered"]
    BY <1>2 DEF Unregister
  <2>2. SessionInv'
    BY <1>0, <2>1 DEF SessionInv, Lives
  <2> QED BY <1>0, <1>1, <2>2, OthersKeep
<1>3. CASE Free(s)
  <2>1. /\ clients' = clients /\ session' = [session EXCEPT ![s] = "freed"]
        /\ session[s] = "unregistered"
    BY <1>3 DEF Free
  <2>2. s \notin clients
    BY <1>0, <2>1
  <2>3. SessionInv'
    BY <1>0, <2>1, <2>2 DEF SessionInv, Lives
  <2> QED BY <1>0, <1>1, <2>3, OthersKeep
<1> QED BY <1>2, <1>3

(* Every step keeps the invariant.                                         *)
LEMMA LifeNextKeeps == LifeInv /\ [LifeNext]_lifeVars => LifeInv'
<1> SUFFICES ASSUME LifeInv, [LifeNext]_lifeVars PROVE LifeInv'
  OBVIOUS
<1>1. CASE MainNext
  BY <1>1, MainKeeps
<1>2. ASSUME NEW g \in Signals, Signal(g) PROVE LifeInv'
  <2>1. ProgramInv' /\ LogInv'
    BY <1>2, LogSignalled DEF LifeInv
  <2>2. /\ UNCHANGED <<mainPc, at, stop, manager, forwardthds, number, session, clients, crashed>>
        /\ sent' = sent \cup {g}
    BY <1>2 DEF Signal, threadVars, arrayVars, sessionVars
  <2>3. ThreadInv' /\ SessionInv' /\ ArrayInv'
    BY <2>2 DEF LifeInv, ThreadInv, SessionInv, ArrayInv
  <2> QED BY <2>1, <2>3 DEF LifeInv
<1>3. ASSUME NEW t \in ServerThreads, ThreadNext(t) PROVE LifeInv'
  BY <1>3, ThreadKeeps
<1>4. ASSUME NEW s \in Sessions, Unregister(s) \/ Free(s) PROVE LifeInv'
  BY <1>4, SessionKeeps
<1>5. CASE UNCHANGED lifeVars
  <2>1. UNCHANGED <<mainPc, frames, sent, logHeld, at, stop, manager, forwardthds, number,
                    session, clients, crashed>>
    BY <1>5 DEF lifeVars, programVars, threadVars, arrayVars, sessionVars
  <2> QED BY <2>1 DEF LifeInv, ProgramInv, LogInv, HoldsAt, Returned, ThreadInv, SessionInv,
                      ArrayInv
<1> QED BY <1>1, <1>2, <1>3, <1>4, <1>5 DEF LifeNext

(* The invariant says what is wanted.                                      *)
LEMMA LifeInvGives == LifeInv => FreedUnused
<1> SUFFICES ASSUME LifeInv PROVE FreedUnused
  OBVIOUS
<1> USE DEF LifeInv
<1>0. PICK n : n = Len(frames)
  OBVIOUS
<1>1. /\ n \in Nat /\ DOMAIN frames = 1 .. n
      /\ \A i \in 1 .. n : frames[i].at \in 1 .. Count + 6
      /\ n = 0 => frames = <<>>
  BY <1>0, FramesType
<1>2. /\ Count \in Nat /\ Len(main) + 1 = 2 * Count + 17 /\ DOMAIN sigint = 1 .. Count + 6
  BY Ends
<1>3. logHeld = (~ Returned /\ HoldsLog)
  <2>1. logHeld \in BOOLEAN /\ (logHeld <=> \E i \in 0 .. n : HoldsAt(i))
    BY <1>0 DEF LogInv
  <2>2. ~ Returned /\ HoldsLog => \E i \in 0 .. n : HoldsAt(i)
    <3> SUFFICES ASSUME ~ Returned, HoldsLog PROVE \E i \in 0 .. n : HoldsAt(i)
      OBVIOUS
    <3>1. CASE main[mainPc] = Unlocks
      <4>1. HoldsAt(0) /\ 0 \in 0 .. n
        BY <1>1, <3>1 DEF HoldsAt
      <4> QED BY <4>1
    <3>2. CASE \E i \in DOMAIN frames : sigint[frames[i].at] = Unlocks
      <4>1. PICK i \in 1 .. n : sigint[frames[i].at] = Unlocks
        BY <1>1, <3>2
      <4>2. HoldsAt(i) /\ i \in 0 .. n
        BY <1>1, <4>1 DEF HoldsAt
      <4> QED BY <4>2
    <3> QED BY <3>1, <3>2 DEF HoldsLog, Unlocks
  <2>3. ASSUME NEW i \in 0 .. n, HoldsAt(i) PROVE ~ Returned /\ HoldsLog
    <3>1. CASE i = 0
      BY <2>3, <3>1 DEF HoldsAt, HoldsLog, Unlocks
    <3>2. CASE i # 0
      <4>1. i \in DOMAIN frames /\ frames # <<>>
        BY <1>0, <1>1, <3>2
      <4>2. ~ Returned
        BY <4>1 DEF ProgramInv
      <4> QED BY <2>3, <3>2, <4>1, <4>2 DEF HoldsAt, HoldsLog, Unlocks
    <3> QED BY <3>1, <3>2
  <2> QED BY <2>1, <2>2, <2>3
<1>4. LifeTypeOK
  BY <1>1, <1>2, <1>3 DEF LifeTypeOK, ProgramInv, ThreadInv, SessionInv
<1>5. forwardthds = "freed" => \A t \in ToSet(Forwarders) : at[t] = "ended"
  <2> SUFFICES ASSUME forwardthds = "freed", NEW t \in ToSet(Forwarders) PROVE at[t] = "ended"
    OBVIOUS
  <2>1. PICK i \in 1 .. Count : t = Forwarders[i]
    <3>1. DOMAIN Forwarders = 1 .. Count
      BY CountType DEF Count
    <3> QED BY <3>1 DEF ToSet
  <2>2. mainPc > Count + 11 + i
    BY <1>2 DEF ArrayInv, ProgramInv
  <2> QED BY <2>1, <2>2 DEF ArrayInv
<1> QED BY <1>4, <1>5 DEF FreedUnused, SessionInv

(* However signals interrupt starting and stopping, and in whatever order  *)
(* sessions come and go: the registry has no session that is being         *)
(* destroyed, the array of the forwarding threads is freed only when all   *)
(* of them have ended, and the mutex of the log is held exactly between    *)
(* its two calls.                                                          *)
THEOREM FreedUnusedSafe == LifeSpec => []FreedUnused
<1>1. LifeInit => LifeInv
  BY LifeInitKeeps
<1>2. LifeInv /\ [LifeNext]_lifeVars => LifeInv'
  BY LifeNextKeeps
<1>3. LifeInv => FreedUnused
  BY LifeInvGives
<1> QED BY <1>1, <1>2, <1>3, PTL DEF LifeSpec
=============================================================================
