---------------------------- MODULE BrowserProofs ----------------------------
(***************************************************************************)
(* ShownIsOpened for every set of hosts and of unlocks in progress: what    *)
(* the admin page shows was fetched by the session it believes is open.     *)
(***************************************************************************)
EXTENDS AdminSession, TLAPS

\* Leaves that name no prover are for Zenon.
USE Zenon

-----------------------------------------------------------------------------
(* AdminSession.  A call in progress has one message on its way to the     *)
(* worker, at a host or on its way back; what the page shows depends on    *)
(* the locks and unlocks it has still to hear of.                          *)

Host == AdminHost \cup {NoHost}
Message == [task : PageTask, what : {"unlock", "lock", "me", "data", "change"}, host : Host]
Reply == [task : PageTask, what : {"unlock", "lock", "me", "data", "change"}, ok : BOOLEAN, host : Host]
Unlocking == [at : {"unlock", "me", "data"}, host : AdminHost, new : BOOLEAN, started : Nat]
Closing == [at : {"lock"}, then : [do : {"stay", "select", "remove"}, host : Host], started : Nat]
Asking == [at : {"me", "data", "change"}, started : Nat]

SessionTypeOK ==
    /\ wasm \in Host /\ opened \in Host /\ generation \in Nat /\ hurried \in BOOLEAN
    /\ inbox \in Seq(Message) /\ outbox \in Seq(Reply) /\ wire \in SUBSET Message
    /\ page \in [unlocked : BOOLEAN, me : Host, data : Host, busy : BOOLEAN]
    /\ profiles \in [stored : SUBSET AdminHost, selected : Host]
    /\ task \in [PageTask -> {NoTask} \cup Unlocking \cup Closing \cup Asking]
    /\ \A t \in UnlockTask : task[t] \in {NoTask} \cup Unlocking
    /\ task["lock"] \in {NoTask} \cup Closing
    /\ task["refresh"] \in {NoTask} \cup Asking /\ task["change"] \in {NoTask} \cup Asking

\* A call in progress has one message on its way, which is for the step it is at.
Matches(m, tasks) == m.what = tasks[m.task].at /\ (m.what = "unlock" => m.host = tasks[m.task].host)
Matched ==
    /\ \A i \in DOMAIN inbox : Matches(inbox[i], task)
    /\ \A m \in wire : Matches(m, task) /\ m.what \in {"me", "data", "change"} /\ m.host # NoHost
    /\ \A i \in DOMAIN outbox : Matches(outbox[i], task)
Sole ==
    /\ \A i, j \in DOMAIN inbox : inbox[i].task = inbox[j].task => i = j
    /\ \A i, j \in DOMAIN outbox : outbox[i].task = outbox[j].task => i = j
    /\ \A m, n \in wire : m.task = n.task => m = n
    /\ \A i \in DOMAIN inbox, m \in wire : inbox[i].task # m.task
    /\ \A i \in DOMAIN inbox, j \in DOMAIN outbox : inbox[i].task # outbox[j].task
    /\ \A m \in wire, j \in DOMAIN outbox : m.task # outbox[j].task

\* The page's view of the worker's session, and what it is still to hear.
View == IF page.unlocked THEN opened ELSE NoHost
Opens(a) == a.what = "unlock" /\ a.ok = TRUE
Opening == {i \in DOMAIN outbox : Opens(outbox[i])}
Closes == {i \in DOMAIN outbox : outbox[i].what = "lock"}
Worker ==
    /\ Opening = {} => wasm \in {NoHost, View} /\ (Closes # {} => wasm = NoHost)
    /\ \A i \in Opening : (\A j \in Opening : j <= i) =>
           /\ wasm \in {NoHost, outbox[i].host}
           /\ (\E j \in Closes : j > i) => wasm = NoHost

\* A request of the current generation was made under the session the page
\* will have been told of when the answer comes, unless another is opened first.
Currently(m, tasks, g) == m.what \in {"me", "data"} /\ tasks[m.task].started = g
Current(m) == Currently(m, task, generation)
Begun == \A t \in PageTask : task[t].at # "idle" => task[t].started <= generation
InOrder == \A i, j \in DOMAIN inbox : Current(inbox[i]) /\ inbox[j].what = "lock" => j < i
Asked ==
    \A m \in wire : Current(m) =>
      /\ \A j \in DOMAIN inbox : inbox[j].what # "lock"
      /\ Opening # {} \/ (View = m.host /\ Closes = {})
Answered ==
    \A i \in DOMAIN outbox : Current(outbox[i]) /\ outbox[i].ok = TRUE =>
      /\ outbox[i].host # NoHost
      /\ (\E j \in Opening : j < i) \/ (View = outbox[i].host /\ \A j \in Closes : j > i)
Fetched == Begun /\ InOrder /\ Asked /\ Answered
Shows == page.me \in {NoHost, View} /\ page.data \in {NoHost, View}

\* One lock or unlock at a time.
Turns == UnlockTask \cup {"lock"}
Settles ==
    hurried = FALSE =>
      /\ \A s, t \in Turns : task[s].at # "idle" /\ task[t].at # "idle" => s = t
      /\ \A t \in UnlockTask : task[t].at = "unlock" /\ task[t].new = FALSE => task[t].host = profiles.selected
      /\ \A t \in UnlockTask : task[t].at \in {"me", "data"} => task[t].host = opened
      /\ (/\ page.unlocked = TRUE /\ task["lock"].at = "idle"
          /\ \A t \in UnlockTask : task[t].at \in {"me", "data"} => task[t].new = FALSE)
             => profiles.selected = opened

Calls == SessionTypeOK /\ Matched /\ Sole
SessionInv == Calls /\ Worker /\ Fetched /\ Shows /\ Settles

LEMMA AppendAt ==
    ASSUME NEW S, NEW s \in Seq(S), NEW x \in S
    PROVE  /\ Append(s, x) \in Seq(S) /\ DOMAIN s = 1 .. Len(s) /\ Len(s) \in Nat
           /\ DOMAIN Append(s, x) = 1 .. (Len(s) + 1)
           /\ \A i \in 1 .. Len(s) : Append(s, x)[i] = s[i]
           /\ Append(s, x)[Len(s) + 1] = x
BY SMT

LEMMA TailAt ==
    ASSUME NEW S, NEW s \in Seq(S), s # <<>>
    PROVE  /\ Tail(s) \in Seq(S) /\ Head(s) \in S /\ Head(s) = s[1] /\ DOMAIN s = 1 .. Len(s)
           /\ Len(s) \in Nat \ {0} /\ DOMAIN Tail(s) = 1 .. (Len(s) - 1)
           /\ \A i \in 1 .. (Len(s) - 1) : Tail(s)[i] = s[i + 1]
BY SMT

\* The calls by name.
LEMMA TaskNames ==
    /\ UnlockTask \subseteq PageTask /\ {"lock", "refresh", "change"} \subseteq PageTask
    /\ \A t \in UnlockTask : t # "lock" /\ t # "refresh" /\ t # "change"
    /\ \A t \in PageTask : t \in UnlockTask \/ t = "lock" \/ t = "refresh" \/ t = "change"
BY SessionAssumption DEF PageTask

\* What a task may be replaced by.
Fits(t, q) ==
    /\ t \in UnlockTask => q \in {NoTask} \cup Unlocking
    /\ t = "lock" => q \in {NoTask} \cup Closing
    /\ t \in {"refresh", "change"} => q \in {NoTask} \cup Asking

LEMMA TaskTyped ==
    ASSUME SessionTypeOK, NEW t \in PageTask, NEW q, Fits(t, q), task' = [task EXCEPT ![t] = q]
    PROVE  /\ task' \in [PageTask -> {NoTask} \cup Unlocking \cup Closing \cup Asking]
           /\ \A s \in UnlockTask : task'[s] \in {NoTask} \cup Unlocking
           /\ task'["lock"] \in {NoTask} \cup Closing
           /\ task'["refresh"] \in {NoTask} \cup Asking /\ task'["change"] \in {NoTask} \cup Asking
           /\ task'[t] = q /\ \A s \in PageTask \ {t} : task'[s] = task[s]
<1>1. q \in {NoTask} \cup Unlocking \cup Closing \cup Asking
  BY TaskNames DEF Fits
<1>2. /\ task' \in [PageTask -> {NoTask} \cup Unlocking \cup Closing \cup Asking]
      /\ task'[t] = q /\ \A s \in PageTask \ {t} : task'[s] = task[s]
  BY <1>1 DEF SessionTypeOK
<1>3. \A s \in UnlockTask : task'[s] \in {NoTask} \cup Unlocking
  BY <1>2, TaskNames DEF SessionTypeOK, Fits
<1>4. /\ task'["lock"] \in {NoTask} \cup Closing
      /\ task'["refresh"] \in {NoTask} \cup Asking /\ task'["change"] \in {NoTask} \cup Asking
  BY <1>2, TaskNames DEF SessionTypeOK, Fits
<1> QED  BY <1>2, <1>3, <1>4

\* Where the messages are: in the inbox, at a host, in the outbox.
LEMMA Typed ==
    ASSUME SessionTypeOK
    PROVE  /\ DOMAIN inbox = 1 .. Len(inbox) /\ DOMAIN outbox = 1 .. Len(outbox)
           /\ \A i \in DOMAIN inbox : inbox[i] \in Message
           /\ \A i \in DOMAIN outbox : outbox[i] \in Reply
           /\ \A m \in wire : m \in Message
BY SMT DEF SessionTypeOK

Unsent(t) ==
    /\ \A i \in DOMAIN inbox : inbox[i].task # t
    /\ \A m \in wire : m.task # t
    /\ \A i \in DOMAIN outbox : outbox[i].task # t

LEMMA IdleUnsent ==
    ASSUME Calls, NEW t \in PageTask, task[t].at = "idle"
    PROVE  Unsent(t)
<1>1. \A i \in DOMAIN inbox : inbox[i].what # "idle" /\ inbox[i].what = task[inbox[i].task].at
  BY Typed DEF Calls, Matched, Matches, Message
<1>2. \A m \in wire : m.what # "idle" /\ m.what = task[m.task].at
  BY Typed DEF Calls, Matched, Matches, Message
<1>3. \A i \in DOMAIN outbox : outbox[i].what # "idle" /\ outbox[i].what = task[outbox[i].task].at
  BY Typed DEF Calls, Matched, Matches, Reply
<1> QED  BY <1>1, <1>2, <1>3, SMT DEF Unsent

\* A call begins, or goes on with its next message.
LEMMA PostCalls ==
    ASSUME Calls, NEW t \in PageTask, Unsent(t), NEW q, Fits(t, q), task' = [task EXCEPT ![t] = q],
           NEW m \in Message, m.task = t, m.what = q.at, m.what = "unlock" => m.host = q.host,
           inbox' = Append(inbox, m), UNCHANGED <<wire, outbox>>
    PROVE  Matched' /\ Sole'
<1>1. task'[t] = q /\ \A s \in PageTask \ {t} : task'[s] = task[s]
  BY TaskTyped DEF Calls
<1>2. /\ DOMAIN inbox = 1 .. Len(inbox) /\ Len(inbox) \in Nat /\ DOMAIN inbox' = 1 .. (Len(inbox) + 1)
      /\ \A i \in 1 .. Len(inbox) : inbox'[i] = inbox[i]
      /\ inbox'[Len(inbox) + 1] = m
  BY AppendAt, SMT DEF Calls, SessionTypeOK
<1>3. \A i \in DOMAIN inbox' : inbox'[i] = m \/ (i \in DOMAIN inbox /\ inbox'[i] = inbox[i])
  BY <1>2, SMT
<1>4. Matched'
  <2>1. \A i \in DOMAIN inbox : inbox[i].task \in PageTask \ {t}
    BY Typed DEF Calls, Unsent, Message
  <2>2. \A n \in wire : n.task \in PageTask \ {t}
    BY Typed DEF Calls, Unsent, Message
  <2>3. \A i \in DOMAIN outbox : outbox[i].task \in PageTask \ {t}
    BY Typed DEF Calls, Unsent, Reply
  <2>4. \A i \in DOMAIN inbox : Matches(inbox[i], task')
    BY <1>1, <2>1, SMT DEF Calls, Matched, Matches
  <2>5. \A n \in wire : Matches(n, task')
    BY <1>1, <2>2, SMT DEF Calls, Matched, Matches
  <2>6. \A i \in DOMAIN outbox : Matches(outbox[i], task')
    BY <1>1, <2>3, SMT DEF Calls, Matched, Matches
  <2>7. Matches(m, task')
    BY <1>1 DEF Matches
  <2>8. \A i \in DOMAIN inbox' : Matches(inbox'[i], task')
    BY <1>3, <2>4, <2>7
  <2>9. \A n \in wire : n.what \in {"me", "data", "change"} /\ n.host # NoHost
    BY DEF Calls, Matched
  <2> QED  BY <2>5, <2>6, <2>8, <2>9 DEF Matched
<1>5. Sole'
  <2>1. \A i, j \in DOMAIN inbox' : inbox'[i].task = inbox'[j].task => i = j
    BY <1>2, SMT DEF Calls, Sole, Unsent
  <2>2. \A i \in DOMAIN inbox', n \in wire : inbox'[i].task # n.task
    BY <1>3, SMT DEF Calls, Sole, Unsent
  <2>3. \A i \in DOMAIN inbox', j \in DOMAIN outbox : inbox'[i].task # outbox[j].task
    BY <1>3, SMT DEF Calls, Sole, Unsent
  <2> QED  BY <2>1, <2>2, <2>3 DEF Calls, Sole
<1> QED  BY <1>4, <1>5

LEMMA HeadOfOutbox ==
    ASSUME Calls, outbox # <<>>
    PROVE  /\ outbox[1] \in Reply /\ outbox[1] = Head(outbox) /\ 1 \in DOMAIN outbox
           /\ outbox[1].task \in PageTask /\ Matches(outbox[1], task)
           /\ \A i \in DOMAIN inbox : inbox[i].task # outbox[1].task
           /\ \A n \in wire : n.task # outbox[1].task
           /\ DOMAIN outbox = 1 .. Len(outbox) /\ Len(outbox) \in Nat \ {0}
           /\ DOMAIN Tail(outbox) = 1 .. (Len(outbox) - 1) /\ Tail(outbox) \in Seq(Reply)
           /\ \A i \in DOMAIN Tail(outbox) : /\ i + 1 \in DOMAIN outbox /\ Tail(outbox)[i] = outbox[i + 1]
                                             /\ outbox[i + 1].task # outbox[1].task
<1>1. outbox \in Seq(Reply)
  BY DEF Calls, SessionTypeOK
<1>2. /\ Tail(outbox) \in Seq(Reply) /\ Head(outbox) \in Reply /\ Head(outbox) = outbox[1]
      /\ DOMAIN outbox = 1 .. Len(outbox) /\ Len(outbox) \in Nat \ {0}
      /\ DOMAIN Tail(outbox) = 1 .. (Len(outbox) - 1)
      /\ \A i \in 1 .. (Len(outbox) - 1) : Tail(outbox)[i] = outbox[i + 1]
  BY <1>1, TailAt
<1>3. 1 \in DOMAIN outbox /\ outbox[1].task \in PageTask
  BY <1>2, SMT DEF Reply
<1>4. \A i \in DOMAIN Tail(outbox) : i + 1 \in DOMAIN outbox /\ Tail(outbox)[i] = outbox[i + 1] /\ i + 1 # 1
  BY <1>2, SMT
<1>5. \A i \in DOMAIN outbox : outbox[i].task = outbox[1].task => i = 1
  BY <1>3 DEF Calls, Sole
<1> QED  BY <1>2, <1>3, <1>4, <1>5 DEF Calls, Sole, Matched

LEMMA HeadOfInbox ==
    ASSUME Calls, inbox # <<>>
    PROVE  /\ inbox[1] \in Message /\ inbox[1] = Head(inbox) /\ 1 \in DOMAIN inbox
           /\ inbox[1].task \in PageTask /\ Matches(inbox[1], task)
           /\ \A i \in DOMAIN outbox : outbox[i].task # inbox[1].task
           /\ \A n \in wire : n.task # inbox[1].task
           /\ DOMAIN inbox = 1 .. Len(inbox) /\ Len(inbox) \in Nat \ {0}
           /\ DOMAIN Tail(inbox) = 1 .. (Len(inbox) - 1) /\ Tail(inbox) \in Seq(Message)
           /\ \A i \in DOMAIN Tail(inbox) : /\ i + 1 \in DOMAIN inbox /\ Tail(inbox)[i] = inbox[i + 1]
                                            /\ inbox[i + 1].task # inbox[1].task
<1>1. inbox \in Seq(Message)
  BY DEF Calls, SessionTypeOK
<1>2. /\ Tail(inbox) \in Seq(Message) /\ Head(inbox) \in Message /\ Head(inbox) = inbox[1]
      /\ DOMAIN inbox = 1 .. Len(inbox) /\ Len(inbox) \in Nat \ {0}
      /\ DOMAIN Tail(inbox) = 1 .. (Len(inbox) - 1)
      /\ \A i \in 1 .. (Len(inbox) - 1) : Tail(inbox)[i] = inbox[i + 1]
  BY <1>1, TailAt
<1>3. 1 \in DOMAIN inbox /\ inbox[1].task \in PageTask
  BY <1>2, SMT DEF Message
<1>4. \A i \in DOMAIN Tail(inbox) : i + 1 \in DOMAIN inbox /\ Tail(inbox)[i] = inbox[i + 1] /\ i + 1 # 1
  BY <1>2, SMT
<1>5. \A i \in DOMAIN inbox : inbox[i].task = inbox[1].task => i = 1
  BY <1>3 DEF Calls, Sole
<1>6. \A i \in DOMAIN outbox : outbox[i].task # inbox[1].task
  BY <1>3 DEF Calls, Sole
<1> QED  BY <1>2, <1>3, <1>4, <1>5, <1>6 DEF Calls, Sole, Matched

\* An answer is heard: the call ends, or goes on with its next message.
LEMMA HearCalls ==
    ASSUME Calls, outbox # <<>>, NEW q, Fits(outbox[1].task, q), task' = [task EXCEPT ![outbox[1].task] = q],
           outbox' = Tail(outbox), UNCHANGED wire,
           \/ UNCHANGED inbox
           \/ \E m \in Message : /\ m.task = outbox[1].task /\ m.what = q.at /\ m.what # "unlock"
                                 /\ inbox' = Append(inbox, m)
    PROVE  Matched' /\ Sole'
<1> DEFINE t == outbox[1].task
<1>0. t \in PageTask
  BY HeadOfOutbox
<1>1. task'[t] = q /\ \A s \in PageTask \ {t} : task'[s] = task[s]
  BY <1>0, TaskTyped DEF Calls
<1>2. \A i \in DOMAIN outbox' : /\ i + 1 \in DOMAIN outbox /\ outbox'[i] = outbox[i + 1]
                                /\ outbox[i + 1].task # t
  BY HeadOfOutbox
<1>3. \A i \in DOMAIN inbox' :
         \/ i \in DOMAIN inbox /\ inbox'[i] = inbox[i]
         \/ i \notin DOMAIN inbox /\ inbox'[i].task = t /\ inbox'[i].what = q.at /\ inbox'[i].what # "unlock"
  <2>1. CASE UNCHANGED inbox
    BY <2>1
  <2>2. ASSUME NEW m \in Message, m.task = t, m.what = q.at, m.what # "unlock", inbox' = Append(inbox, m)
        PROVE  \A i \in DOMAIN inbox' :
                 \/ i \in DOMAIN inbox /\ inbox'[i] = inbox[i]
                 \/ i \notin DOMAIN inbox /\ inbox'[i] = m
    BY <2>2, AppendAt, SMT DEF Calls, SessionTypeOK
  <2> QED  BY <2>1, <2>2
<1>4. \A i, j \in DOMAIN inbox' : i \notin DOMAIN inbox /\ j \notin DOMAIN inbox => i = j
  <2>1. ASSUME NEW m \in Message, inbox' = Append(inbox, m)
        PROVE  \A i, j \in DOMAIN inbox' : i \notin DOMAIN inbox /\ j \notin DOMAIN inbox => i = j
    BY <2>1, AppendAt, SMT DEF Calls, SessionTypeOK
  <2> QED  BY <2>1
<1>5. \A i \in DOMAIN inbox : inbox[i].task \in PageTask \ {t}
  BY Typed, HeadOfOutbox DEF Calls, Message
<1>6. \A n \in wire : n.task \in PageTask \ {t}
  BY Typed, HeadOfOutbox DEF Calls, Message
<1>7. \A i \in DOMAIN outbox : outbox[i].task \in PageTask
  BY Typed DEF Calls, Reply
<1> HIDE DEF t
<1>8. Matched'
  <2>1. \A i \in DOMAIN inbox : Matches(inbox[i], task')
    BY <1>1, <1>5, SMT DEF Calls, Matched, Matches
  <2>2. \A n \in wire : Matches(n, task')
    BY <1>1, <1>6, SMT DEF Calls, Matched, Matches
  <2>3. \A i \in DOMAIN outbox' : Matches(outbox'[i], task')
    BY <1>1, <1>2, <1>7, SMT DEF Calls, Matched, Matches
  <2>4. \A i \in DOMAIN inbox' : Matches(inbox'[i], task')
    BY <1>1, <1>3, <2>1, SMT DEF Matches
  <2>5. \A n \in wire : n.what \in {"me", "data", "change"} /\ n.host # NoHost
    BY DEF Calls, Matched
  <2> QED  BY <2>2, <2>3, <2>4, <2>5 DEF Matched
<1>9. Sole'
  <2>1. \A i, j \in DOMAIN inbox' : inbox'[i].task = inbox'[j].task => i = j
    BY <1>3, <1>4, <1>5, SMT DEF Calls, Sole
  <2>2. \A i, j \in DOMAIN outbox' : outbox'[i].task = outbox'[j].task => i = j
    <3>1. DOMAIN outbox' \subseteq Int
      BY HeadOfOutbox, SMT
    <3> QED  BY <1>2, <3>1, SMT DEF Calls, Sole
  <2>3. \A i \in DOMAIN inbox', n \in wire : inbox'[i].task # n.task
    BY <1>3, <1>6, SMT DEF Calls, Sole
  <2>4. \A i \in DOMAIN inbox', j \in DOMAIN outbox' : inbox'[i].task # outbox'[j].task
    BY <1>2, <1>3, SMT DEF Calls, Sole
  <2>5. \A n \in wire, j \in DOMAIN outbox' : n.task # outbox'[j].task
    BY <1>2, SMT DEF Calls, Sole
  <2> QED  BY <2>1, <2>2, <2>3, <2>4, <2>5 DEF Calls, Sole
<1> QED  BY <1>8, <1>9

\* The worker takes a message: it answers, or asks the host.
LEMMA HandleCalls ==
    ASSUME Calls, inbox # <<>>, inbox' = Tail(inbox), UNCHANGED task,
           \/ UNCHANGED wire /\ \E r \in Reply : /\ r.task = inbox[1].task /\ r.what = inbox[1].what
                                                 /\ r.what = "unlock" => r.host = inbox[1].host
                                                 /\ outbox' = Append(outbox, r)
           \/ UNCHANGED outbox /\ \E n \in Message : /\ n.task = inbox[1].task /\ n.what = inbox[1].what
                                                     /\ n.what \in {"me", "data", "change"} /\ n.host # NoHost
                                                     /\ wire' = wire \cup {n}
    PROVE  Matched' /\ Sole'
<1> DEFINE t == inbox[1].task
<1>1. Matches(inbox[1], task)
  BY HeadOfInbox
<1>2. \A i \in DOMAIN inbox' : /\ i + 1 \in DOMAIN inbox /\ inbox'[i] = inbox[i + 1]
                               /\ inbox[i + 1].task # t
  BY HeadOfInbox
<1>3. DOMAIN inbox' \subseteq Int
  BY HeadOfInbox, SMT
<1>4. /\ \A i \in DOMAIN outbox : outbox[i].task # t
      /\ \A n \in wire : n.task # t
  BY HeadOfInbox
<1>5. \A i \in DOMAIN inbox' : Matches(inbox'[i], task)
  BY <1>2 DEF Calls, Matched
<1>6. \A i, j \in DOMAIN inbox' : inbox'[i].task = inbox'[j].task => i = j
  BY <1>2, <1>3, SMT DEF Calls, Sole
<1>7. CASE UNCHANGED outbox
  <2>1. PICK n \in Message : /\ n.task = t /\ n.what = inbox[1].what
                             /\ n.what \in {"me", "data", "change"} /\ n.host # NoHost
                             /\ wire' = wire \cup {n}
    <3>1. ASSUME NEW r \in Reply, outbox' = Append(outbox, r)
          PROVE  outbox' # outbox
      BY <3>1, SMT DEF Calls, SessionTypeOK
    <3> QED  BY <1>7, <3>1
  <2>2. Matches(n, task)
    BY <1>1, <2>1 DEF Matches
  <2>3. Matched'
    BY <1>5, <1>7, <2>1, <2>2 DEF Calls, Matched
  <2>4. \A i \in DOMAIN inbox', m \in wire' : inbox'[i].task # m.task
    BY <1>2, <2>1, SMT DEF Calls, Sole
  <2>5. \A m, k \in wire' : m.task = k.task => m = k
    BY <1>4, <2>1, SMT DEF Calls, Sole
  <2>6. \A i \in DOMAIN inbox', j \in DOMAIN outbox : inbox'[i].task # outbox[j].task
    BY <1>2, SMT DEF Calls, Sole
  <2>7. \A m \in wire', j \in DOMAIN outbox : m.task # outbox[j].task
    BY <1>4, <2>1 DEF Calls, Sole
  <2> QED  BY <1>6, <1>7, <2>3, <2>4, <2>5, <2>6, <2>7 DEF Calls, Sole
<1>8. CASE UNCHANGED wire /\ outbox' # outbox
  <2>1. PICK r \in Reply : /\ r.task = t /\ r.what = inbox[1].what
                           /\ r.what = "unlock" => r.host = inbox[1].host
                           /\ outbox' = Append(outbox, r)
    BY <1>8
  <2>2. Matches(r, task)
    BY <1>1, <2>1 DEF Matches
  <2>3. \A i \in DOMAIN outbox' : \/ i \in DOMAIN outbox /\ outbox'[i] = outbox[i]
                                  \/ i \notin DOMAIN outbox /\ outbox'[i] = r
    BY <2>1, AppendAt, SMT DEF Calls, SessionTypeOK
  <2>4. \A i, j \in DOMAIN outbox' : i \notin DOMAIN outbox /\ j \notin DOMAIN outbox => i = j
    BY <2>1, AppendAt, SMT DEF Calls, SessionTypeOK
  <2>5. \A i \in DOMAIN outbox' : Matches(outbox'[i], task)
    BY <2>2, <2>3 DEF Calls, Matched
  <2>6. Matched'
    BY <1>5, <1>8, <2>5 DEF Calls, Matched
  <2>7. \A i, j \in DOMAIN outbox' : outbox'[i].task = outbox'[j].task => i = j
    BY <1>4, <2>1, <2>3, <2>4, SMT DEF Calls, Sole
  <2>8. \A i \in DOMAIN inbox', m \in wire : inbox'[i].task # m.task
    BY <1>2, SMT DEF Calls, Sole
  <2>9. \A i \in DOMAIN inbox', j \in DOMAIN outbox' : inbox'[i].task # outbox'[j].task
    BY <1>2, <2>1, <2>3, SMT DEF Calls, Sole
  <2>10. \A m \in wire, j \in DOMAIN outbox' : m.task # outbox'[j].task
    BY <1>4, <2>1, <2>3, SMT DEF Calls, Sole
  <2> QED  BY <1>6, <1>8, <2>6, <2>7, <2>8, <2>9, <2>10 DEF Calls, Sole
<1> QED  BY <1>7, <1>8

LEMMA HostCalls ==
    ASSUME Calls, NEW m \in wire, wire' = wire \ {m}, UNCHANGED <<inbox, task>>,
           NEW r \in Reply, r.task = m.task, r.what = m.what, outbox' = Append(outbox, r)
    PROVE  Matched' /\ Sole'
<1>1. Matches(r, task)
  BY DEF Matches, Calls, Matched
<1>2. \A i \in DOMAIN outbox' : \/ i \in DOMAIN outbox /\ outbox'[i] = outbox[i]
                                \/ i \notin DOMAIN outbox /\ outbox'[i] = r
  BY AppendAt, SMT DEF Calls, SessionTypeOK
<1>3. \A i, j \in DOMAIN outbox' : i \notin DOMAIN outbox /\ j \notin DOMAIN outbox => i = j
  BY AppendAt, SMT DEF Calls, SessionTypeOK
<1>4. \A i \in DOMAIN outbox' : Matches(outbox'[i], task)
  BY <1>1, <1>2 DEF Calls, Matched
<1>5. Matched'
  BY <1>4 DEF Calls, Matched
<1>6. \A i, j \in DOMAIN outbox' : outbox'[i].task = outbox'[j].task => i = j
  BY <1>2, <1>3, SMT DEF Calls, Sole
<1>7. \A i \in DOMAIN inbox, j \in DOMAIN outbox' : inbox[i].task # outbox'[j].task
  BY <1>2, SMT DEF Calls, Sole
<1>8. \A n \in wire', j \in DOMAIN outbox' : n.task # outbox'[j].task
  BY <1>2, SMT DEF Calls, Sole
<1> QED  BY <1>5, <1>6, <1>7, <1>8, ZenonT(30) DEF Calls, Sole

\* A call is known by the step it is at.
LEMMA CallKinds ==
    ASSUME Calls, NEW t \in PageTask
    PROVE  /\ task[t].at = "unlock" => t \in UnlockTask /\ task[t] \in Unlocking
           /\ task[t].at = "lock" => t = "lock" /\ task[t] \in Closing
           /\ task[t].at \in {"me", "data"} =>
                \/ t \in UnlockTask /\ task[t] \in Unlocking
                \/ t \in {"refresh", "change"} /\ task[t] \in Asking
           /\ task[t].at = "change" => t \in {"refresh", "change"} /\ task[t] \in Asking
           /\ task[t].at # "idle" => task[t] \in Unlocking \cup Closing \cup Asking
           /\ task[t].at = "idle" => task[t] = NoTask
           /\ t \in UnlockTask => task[t] \in {NoTask} \cup Unlocking
<1>1. /\ t \in UnlockTask => task[t] \in {NoTask} \cup Unlocking
      /\ t = "lock" => task[t] \in {NoTask} \cup Closing
      /\ t \in {"refresh", "change"} => task[t] \in {NoTask} \cup Asking
      /\ t \in UnlockTask \/ t = "lock" \/ t \in {"refresh", "change"}
  BY TaskNames DEF Calls, SessionTypeOK
<1>2. /\ task[t] \in Unlocking => task[t].at \in {"unlock", "me", "data"}
      /\ task[t] \in Closing => task[t].at = "lock"
      /\ task[t] \in Asking => task[t].at \in {"me", "data", "change"}
      /\ task[t] = NoTask => task[t].at = "idle"
  BY SMT DEF Unlocking, Closing, Asking, NoTask
<1> QED  BY <1>1, <1>2, SMT

\* The page hears that the worker opened a session.
LEMMA HearOpens ==
    ASSUME Calls, HearWorker, Opens(outbox[1]), NEW t, t = outbox[1].task
    PROVE  /\ outbox # <<>> /\ outbox' = Tail(outbox) /\ UNCHANGED <<wasm, wire, hurried, profiles>>
           /\ t \in UnlockTask /\ task[t] \in Unlocking /\ task[t].at = "unlock"
           /\ outbox[1].host = task[t].host /\ task[t].host \in AdminHost
           /\ generation' = generation + 1 /\ opened' = outbox[1].host
           /\ page' = [unlocked |-> TRUE, me |-> NoHost, data |-> NoHost, busy |-> page.busy]
           /\ task' = [task EXCEPT ![t] = [at |-> "me", host |-> task[t].host, new |-> task[t].new,
                                           started |-> generation + 1]]
           /\ inbox' = Append(inbox, [task |-> t, what |-> "me", host |-> NoHost])
<1>0. outbox # <<>> /\ outbox' = Tail(outbox) /\ UNCHANGED <<wasm, wire, hurried>> /\ Head(outbox) = outbox[1]
  BY HeadOfOutbox DEF HearWorker
<1>1. HearUnlock(outbox[1])
  BY <1>0 DEF HearWorker, HearLock, HearMe, HearData, HearChange, Opens
<1>2. /\ generation' = generation + 1
      /\ page' = [Blank EXCEPT !.unlocked = TRUE, !.busy = page.busy]
      /\ opened' = outbox[1].host
      /\ task' = [task EXCEPT ![t].at = "me", ![t].started = generation + 1]
      /\ Post(t, "me", NoHost)
      /\ UNCHANGED profiles
  BY <1>1 DEF HearUnlock, Opens
<1>3. t \in PageTask /\ task[t].at = "unlock" /\ outbox[1].host = task[t].host
  BY <1>0, HeadOfOutbox DEF Opens, Matches
<1>4. t \in UnlockTask /\ task[t] \in Unlocking
  BY <1>3, CallKinds
<1>5. task[t].host \in AdminHost /\ task[t] = [at |-> task[t].at, host |-> task[t].host, new |-> task[t].new,
                                               started |-> task[t].started]
  BY <1>4, SMT DEF Unlocking
<1>6. task' = [task EXCEPT ![t] = [at |-> "me", host |-> task[t].host, new |-> task[t].new,
                                   started |-> generation + 1]]
  <2> DEFINE q == [at |-> "me", host |-> task[t].host, new |-> task[t].new, started |-> generation + 1]
             r == [task[t] EXCEPT !.at = "me"]
  <2>1. r = [at |-> "me", host |-> task[t].host, new |-> task[t].new, started |-> task[t].started]
    BY <1>5, SMT
  <2>2. [r EXCEPT !.started = generation + 1] = q
    <3> HIDE DEF r
    <3>1. ASSUME NEW g PROVE [r EXCEPT !.started = g] = [at |-> "me", host |-> task[t].host, new |-> task[t].new,
                                                         started |-> g]
      BY <2>1, SMT
    <3> QED  BY <3>1
  <2>3. task \in [PageTask -> {NoTask} \cup Unlocking \cup Closing \cup Asking]
    BY DEF Calls, SessionTypeOK
  <2> HIDE DEF q
  <2>4. task' = [[task EXCEPT ![t] = [task[t] EXCEPT !.at = "me"]] EXCEPT ![t] = q]
    BY <1>2, <1>3, <2>2, <2>3
  <2>5. task' = [task EXCEPT ![t] = q]
    BY <1>3, <2>3, <2>4
  <2> QED  BY <2>5 DEF q
<1>7. page' = [unlocked |-> TRUE, me |-> NoHost, data |-> NoHost, busy |-> page.busy]
  BY <1>2 DEF Blank
<1> QED  BY <1>0, <1>2, <1>3, <1>4, <1>5, <1>6, <1>7 DEF Post

\* remove keeps a selected profile among the hosts.
LEMMA WithoutTyped ==
    ASSUME Calls, NEW h, NEW p \in Without(h)
    PROVE  p \in [stored : SUBSET AdminHost, selected : Host]
<1>1. profiles.stored \in SUBSET AdminHost /\ profiles.selected \in Host
  BY SMT DEF Calls, SessionTypeOK
<1>2. p.stored = profiles.stored \ {h} /\ p.selected \in (profiles.stored \ {h}) \cup {profiles.selected, NoHost}
      /\ p = [stored |-> p.stored, selected |-> p.selected]
  BY SMT DEF Without
<1>3. p.stored \in SUBSET AdminHost /\ p.selected \in Host
  BY <1>1, <1>2 DEF Host
<1> QED  BY <1>2, <1>3, SMT

\* The page hears that the worker dropped its session.
LEMMA HearCloses ==
    ASSUME Calls, HearWorker, outbox[1].what = "lock"
    PROVE  /\ outbox # <<>> /\ outbox' = Tail(outbox) /\ UNCHANGED <<wasm, wire, hurried, inbox, generation, opened>>
           /\ outbox[1].task = "lock" /\ task["lock"].at = "lock"
           /\ page' = Blank /\ task' = [task EXCEPT !["lock"] = NoTask]
           /\ profiles' \in [stored : SUBSET AdminHost, selected : Host]
<1>0. outbox # <<>> /\ outbox' = Tail(outbox) /\ UNCHANGED <<wasm, wire, hurried>> /\ Head(outbox) = outbox[1]
  BY HeadOfOutbox DEF HearWorker
<1>1. HearLock(outbox[1])
  BY <1>0 DEF HearWorker, HearUnlock, HearMe, HearData, HearChange
<1>2. outbox[1].task \in PageTask /\ task[outbox[1].task].at = "lock"
  BY <1>0, HeadOfOutbox DEF Matches
<1>3. outbox[1].task = "lock" /\ task["lock"] \in Closing
  BY <1>2, CallKinds
<1>4. profiles' \in [stored : SUBSET AdminHost, selected : Host]
  <2> DEFINE then == task["lock"].then
  <2>1. then.do \in {"stay", "select", "remove"} /\ then.host \in Host
    BY <1>3, SMT DEF Closing
  <2>2. profiles \in [stored : SUBSET AdminHost, selected : Host]
    BY DEF Calls, SessionTypeOK
  <2>3. CASE then.do = "stay"
    BY <1>1, <2>2, <2>3, SMT DEF HearLock
  <2>4. CASE then.do = "select"
    <3>1. profiles' = IF then.host \in profiles.stored THEN [profiles EXCEPT !.selected = then.host] ELSE profiles
      BY <1>1, <2>4, SMT DEF HearLock
    <3> QED  BY <2>1, <2>2, <3>1, SMT
  <2>5. CASE then.do = "remove"
    <3>1. profiles' \in Without(then.host)
      BY <1>1, <2>5, SMT DEF HearLock
    <3> QED  BY <3>1, WithoutTyped
  <2> QED  BY <2>1, <2>3, <2>4, <2>5
<1> QED  BY <1>0, <1>1, <1>2, <1>3, <1>4 DEF HearLock

\* The page hears anything else: the call ends, or goes on if its session is
\* still the one.
Ends(t) == task' = [task EXCEPT ![t] = NoTask] /\ UNCHANGED inbox
GoesOn(t, w) ==
    /\ generation = task[t].started /\ task[t] \in Unlocking \cup Asking
    /\ task' = [task EXCEPT ![t] = [task[t] EXCEPT !.at = w]]
    /\ inbox' = Append(inbox, [task |-> t, what |-> w, host |-> NoHost])
ShowsOnly(a, shown) ==
    /\ shown \in [unlocked : BOOLEAN, me : Host, data : Host, busy : BOOLEAN]
    /\ shown.unlocked = page.unlocked
    /\ shown.me = page.me \/ (Current(a) /\ a.ok = TRUE /\ shown.me = a.host)
    /\ shown.data \in {NoHost, page.data} \/ (Current(a) /\ a.ok = TRUE /\ shown.data = a.host)
Selects(t) ==
    /\ t \in UnlockTask /\ task[t] \in Unlocking /\ task[t].at \in {"me", "data"} /\ task[t].new = TRUE
    /\ task'[t] = NoTask
    /\ profiles' = [stored |-> profiles.stored \cup {task[t].host}, selected |-> task[t].host]

LEMMA EndedShape ==
    ASSUME Calls, NEW a, a.task \in PageTask, task[a.task].at # "idle", NEW shown, ShowsOnly(a, shown), Ended(a.task, shown)
    PROVE  /\ Ends(a.task) /\ ShowsOnly(a, page')
           /\ Selects(a.task) \/ (UNCHANGED profiles
                /\ (a.task \in UnlockTask => task[a.task].at = "unlock" \/ task[a.task].new = FALSE))
<1> DEFINE t == a.task
<1>0. task[t] # NoTask
  BY SMT DEF NoTask
<1>1. Ends(t)
  BY DEF Ended, Ends
<1>2. ShowsOnly(a, page')
  <2>1. page' = [shown EXCEPT !.busy = FALSE] \/ page' = shown
    BY DEF Ended
  <2>2. CASE page' = [shown EXCEPT !.busy = FALSE]
    <3>0. shown \in [unlocked : BOOLEAN, me : Host, data : Host, busy : BOOLEAN]
      BY DEF ShowsOnly
    <3>1. /\ page' \in [unlocked : BOOLEAN, me : Host, data : Host, busy : BOOLEAN]
          /\ page'.unlocked = shown.unlocked /\ page'.me = shown.me /\ page'.data = shown.data
      BY <2>2, <3>0
    <3> QED  BY <3>1 DEF ShowsOnly
  <2> QED  BY <2>1, <2>2
<1>3. CASE t \in UnlockTask /\ task[t].at # "unlock" /\ task[t].new
  <2>1. task[t] \in Unlocking
    BY <1>0, <1>3, CallKinds
  <2>2. task[t].at \in {"me", "data"} /\ task[t].new \in BOOLEAN
    BY <1>3, <2>1, SMT DEF Unlocking
  <2>3. task[t].new = TRUE
    BY <1>3, <2>2
  <2>4. task'[t] = NoTask
    BY <1>1 DEF Ends, Calls, SessionTypeOK
  <2>5. profiles' = [stored |-> profiles.stored \cup {task[t].host}, selected |-> task[t].host]
    BY <1>3 DEF Ended
  <2> QED  BY <1>1, <1>2, <1>3, <2>1, <2>2, <2>3, <2>4, <2>5 DEF Selects
<1>4. CASE ~(t \in UnlockTask /\ task[t].at # "unlock" /\ task[t].new)
  <2>1. UNCHANGED profiles
    BY <1>4 DEF Ended
  <2>2. t \in UnlockTask => task[t] \in Unlocking
    BY <1>0, CallKinds
  <2>3. t \in UnlockTask => task[t].new \in BOOLEAN
    BY <2>2, SMT DEF Unlocking
  <2>4. t \in UnlockTask => task[t].at = "unlock" \/ task[t].new = FALSE
    BY <1>4, <2>3
  <2> QED  BY <1>1, <1>2, <2>1, <2>4
<1> QED  BY <1>3, <1>4

LEMMA HearOthers ==
    ASSUME Calls, HearWorker, ~Opens(outbox[1]), outbox[1].what # "lock", NEW t, t = outbox[1].task
    PROVE  /\ outbox # <<>> /\ outbox' = Tail(outbox) /\ UNCHANGED <<wasm, wire, hurried, generation, opened>>
           /\ t \in PageTask /\ task[t].at # "idle" /\ t # "lock"
           /\ ShowsOnly(outbox[1], page')
           /\ \/ Ends(t) /\ (Selects(t) \/ (UNCHANGED profiles
                    /\ (t \in UnlockTask => task[t].at = "unlock" \/ task[t].new = FALSE)))
              \/ UNCHANGED profiles /\ task[t].at # "unlock" /\ \E w \in {"me", "data"} : GoesOn(t, w)
<1> DEFINE a == outbox[1]
<1>0. outbox # <<>> /\ outbox' = Tail(outbox) /\ UNCHANGED <<wasm, wire, hurried>> /\ Head(outbox) = a
  BY HeadOfOutbox DEF HearWorker
<1>1. /\ a \in Reply /\ t \in PageTask /\ task[t].at = a.what
      /\ page \in [unlocked : BOOLEAN, me : Host, data : Host, busy : BOOLEAN]
  BY <1>0, HeadOfOutbox DEF Matches, Calls, SessionTypeOK
<1>2. a.host \in Host /\ a.ok \in BOOLEAN /\ task[t].at # "idle" /\ NoHost \in Host
  BY <1>1, SMT DEF Reply, Host
<1>3. t # "lock"
  BY <1>1, <1>2, CallKinds, TaskNames, SMT DEF Calls, SessionTypeOK, Closing, NoTask
<1>4. ShowsOnly(a, page)
  BY <1>1, SMT DEF ShowsOnly
<1>5. Still(t) /\ a.what \in {"me", "data"} => Current(a)
  BY DEF Still, Current, Currently
<1>6. ASSUME NEW shown, ShowsOnly(a, shown), Ended(t, shown), UNCHANGED <<generation, opened>>
      PROVE  /\ UNCHANGED <<generation, opened>> /\ ShowsOnly(a, page')
             /\ Ends(t) /\ (Selects(t) \/ (UNCHANGED profiles
                    /\ (t \in UnlockTask => task[t].at = "unlock" \/ task[t].new = FALSE)))
  BY <1>1, <1>2, <1>6, EndedShape
<1>7. ASSUME NEW shown, ShowsOnly(a, shown), NEW w \in {"me", "data"}, Continue(t, w, shown), UNCHANGED <<generation, opened>>,
             Still(t), a.what \in {"me", "data", "change"}
      PROVE  /\ UNCHANGED <<generation, opened>> /\ ShowsOnly(a, page')
             /\ UNCHANGED profiles /\ task[t].at # "unlock" /\ \E v \in {"me", "data"} : GoesOn(t, v)
  <2>1. task[t].at # "unlock" /\ task[t] \in Unlocking \cup Asking
    BY <1>1, <1>7, CallKinds
  <2>2. task' = [task EXCEPT ![t] = [task[t] EXCEPT !.at = w]]
    BY <1>1, <1>7 DEF Continue, Calls, SessionTypeOK
  <2>3. GoesOn(t, w)
    BY <1>7, <2>1, <2>2 DEF GoesOn, Continue, Post, Still
  <2> QED  BY <1>7, <2>1, <2>3 DEF Continue
<1>8. CASE HearUnlock(a)
  <2>1. Ended(t, page) /\ UNCHANGED <<generation, opened>>
    BY <1>2, <1>8 DEF HearUnlock, Opens
  <2> QED  BY <1>0, <1>1, <1>2, <1>3, <1>4, <1>6, <2>1
<1>9. CASE HearMe(a)
  <2>0. a.what = "me" /\ UNCHANGED <<generation, opened>>
    BY <1>9 DEF HearMe
  <2>1. CASE Still(t) /\ a.ok
    <3>0. Current(a) /\ a.ok = TRUE
      BY <1>2, <1>5, <2>0, <2>1
    <3>1. ShowsOnly(a, [page EXCEPT !.me = a.host, !.data = NoHost])
      <4> DEFINE shown == [page EXCEPT !.me = a.host, !.data = NoHost]
      <4>1. /\ shown \in [unlocked : BOOLEAN, me : Host, data : Host, busy : BOOLEAN]
            /\ shown.unlocked = page.unlocked /\ shown.me = a.host /\ shown.data = NoHost
        BY <1>1, <1>2
      <4> QED  BY <3>0, <4>1 DEF ShowsOnly
    <3>2. ShowsOnly(a, [page EXCEPT !.me = a.host])
      <4> DEFINE shown == [page EXCEPT !.me = a.host]
      <4>1. /\ shown \in [unlocked : BOOLEAN, me : Host, data : Host, busy : BOOLEAN]
            /\ shown.unlocked = page.unlocked /\ shown.me = a.host /\ shown.data = page.data
        BY <1>1, <1>2, SMT
      <4> QED  BY <3>0, <4>1 DEF ShowsOnly
    <3>3. \/ Ended(t, [page EXCEPT !.me = a.host, !.data = NoHost])
          \/ Continue(t, "data", [page EXCEPT !.me = a.host])
      BY <1>9, <2>1 DEF HearMe
    <3>4. CASE Ended(t, [page EXCEPT !.me = a.host, !.data = NoHost])
      BY <1>0, <1>1, <1>2, <1>3, <1>6, <2>0, <3>1, <3>4
    <3>5. CASE Continue(t, "data", [page EXCEPT !.me = a.host])
      BY <1>0, <1>1, <1>2, <1>3, <1>7, <2>0, <2>1, <3>2, <3>5
    <3> QED  BY <3>3, <3>4, <3>5
  <2>2. CASE ~(Still(t) /\ a.ok)
    <3>1. Ended(t, page)
      BY <1>9, <2>2 DEF HearMe
    <3> QED  BY <1>0, <1>1, <1>2, <1>3, <1>4, <1>6, <2>0, <3>1
  <2> QED  BY <2>1, <2>2
<1>10. CASE HearData(a)
  <2>0. a.what = "data" /\ UNCHANGED <<generation, opened>>
    BY <1>10 DEF HearData
  <2>1. CASE Still(t) /\ a.ok
    <3>0. Current(a) /\ a.ok = TRUE
      BY <1>2, <1>5, <2>0, <2>1
    <3> DEFINE shown == [page EXCEPT !.data = a.host]
    <3>1. /\ shown \in [unlocked : BOOLEAN, me : Host, data : Host, busy : BOOLEAN]
          /\ shown.unlocked = page.unlocked /\ shown.me = page.me /\ shown.data = a.host
      BY <1>1, <1>2, SMT
    <3>2. ShowsOnly(a, shown)
      BY <3>0, <3>1 DEF ShowsOnly
    <3>3. Ended(t, shown)
      BY <1>10, <2>1 DEF HearData
    <3> QED  BY <1>0, <1>1, <1>2, <1>3, <1>6, <2>0, <3>2, <3>3
  <2>2. CASE ~(Still(t) /\ a.ok)
    <3>1. Ended(t, page)
      BY <1>10, <2>2 DEF HearData
    <3> QED  BY <1>0, <1>1, <1>2, <1>3, <1>4, <1>6, <2>0, <3>1
  <2> QED  BY <2>1, <2>2
<1>11. CASE HearChange(a)
  <2>0. a.what = "change" /\ UNCHANGED <<generation, opened>>
    BY <1>11 DEF HearChange
  <2>1. CASE Still(t) /\ a.ok
    <3>1. Continue(t, "me", page)
      BY <1>11, <2>1 DEF HearChange
    <3> QED  BY <1>0, <1>1, <1>2, <1>3, <1>4, <1>7, <2>0, <2>1, <3>1
  <2>2. CASE ~(Still(t) /\ a.ok)
    <3>1. Ended(t, page)
      BY <1>11, <2>2 DEF HearChange
    <3> QED  BY <1>0, <1>1, <1>2, <1>3, <1>4, <1>6, <2>0, <3>1
  <2> QED  BY <2>1, <2>2
<1> QED  BY <1>0, <1>8, <1>9, <1>10, <1>11 DEF HearWorker, HearLock

Page == [unlocked : BOOLEAN, me : Host, data : Host, busy : BOOLEAN]

\* The operator presses a button: a call begins.
Begins(t, q, h) ==
    /\ t \in PageTask /\ task[t].at = "idle" /\ Fits(t, q) /\ h \in Host
    /\ q.at \in {"unlock", "lock", "me", "change"} /\ (q.at = "unlock" => q.host = h)
    /\ q.started = generation' /\ q # NoTask
    /\ task' = [task EXCEPT ![t] = q]
    /\ inbox' = Append(inbox, [task |-> t, what |-> q.at, host |-> h])
    /\ page' \in Page /\ page'.unlocked = page.unlocked /\ page'.me = page.me /\ page'.data = page.data
    /\ hurried' \in BOOLEAN
    /\ UNCHANGED <<wasm, wire, outbox, profiles, opened>>

LEMMA PageTyped ==
    ASSUME Calls
    PROVE  /\ page \in Page /\ generation \in Nat /\ hurried \in BOOLEAN /\ (hurried \/ Turning) \in BOOLEAN
           /\ [page EXCEPT !.busy = TRUE] \in Page
           /\ [page EXCEPT !.busy = TRUE].unlocked = page.unlocked
           /\ [page EXCEPT !.busy = TRUE].me = page.me
           /\ [page EXCEPT !.busy = TRUE].data = page.data
<1>1. page \in Page /\ generation \in Nat /\ hurried \in BOOLEAN
  BY DEF Calls, SessionTypeOK, Page
<1>2. (hurried \/ Turning) \in BOOLEAN
  OBVIOUS
<1>3. /\ [page EXCEPT !.busy = TRUE] \in Page
      /\ [page EXCEPT !.busy = TRUE].unlocked = page.unlocked
      /\ [page EXCEPT !.busy = TRUE].me = page.me
      /\ [page EXCEPT !.busy = TRUE].data = page.data
  BY <1>1 DEF Page
<1> QED  BY <1>1, <1>2, <1>3

LEMMA UnlockBegins ==
    ASSUME Calls, NEW t \in UnlockTask, NEW h \in AdminHost, NEW new \in BOOLEAN, PressUnlock(t, h, new)
    PROVE  /\ Begins(t, [at |-> "unlock", host |-> h, new |-> new, started |-> generation], h)
           /\ UNCHANGED generation
           /\ new = FALSE => h = profiles.selected /\ page.unlocked = FALSE
<1> DEFINE q == [at |-> "unlock", host |-> h, new |-> new, started |-> generation]
<1>1. page \in Page /\ generation \in Nat /\ (hurried \/ Turning) \in BOOLEAN
  BY PageTyped
<1>2. q \in Unlocking /\ q.at = "unlock" /\ q.host = h /\ q.started = generation
  BY <1>1, SMT DEF Unlocking
<1>3. q # NoTask
  BY <1>2, SMT DEF Unlocking, NoTask
<1>4. Fits(t, q)
  BY <1>2, TaskNames DEF Fits
<1>5. /\ task[t].at = "idle" /\ task' = [task EXCEPT ![t] = q]
      /\ inbox' = Append(inbox, [task |-> t, what |-> "unlock", host |-> h])
      /\ page' = [page EXCEPT !.busy = TRUE] /\ hurried' = (hurried \/ Turning)
      /\ UNCHANGED <<wasm, wire, outbox, generation, profiles, opened>>
  BY DEF PressUnlock, Post
<1>6. new = FALSE => h = profiles.selected /\ page.unlocked = FALSE
  <2>1. page.unlocked \in BOOLEAN
    BY <1>1, SMT DEF Page
  <2> QED  BY <2>1 DEF PressUnlock
<1>7. h \in Host /\ t \in PageTask
  BY TaskNames DEF Host
<1> HIDE DEF q
<1>8. Begins(t, q, h)
  BY <1>1, <1>2, <1>3, <1>4, <1>5, <1>7, PageTyped DEF Begins
<1> QED  BY <1>5, <1>6, <1>8 DEF q

LEMMA LockBegins ==
    ASSUME Calls, PressLock
    PROVE  \E then : /\ Begins("lock", [at |-> "lock", then |-> then, started |-> generation + 1], NoHost)
                     /\ generation' = generation + 1 /\ UNCHANGED page /\ hurried' = (hurried \/ Turning)
<1>0. page \in Page /\ generation \in Nat /\ (hurried \/ Turning) \in BOOLEAN
  BY PageTyped
<1>1. PICK then \in [do : {"stay", "select", "remove"}, host : Host] : Locking(then)
  <2>0. profiles.stored \subseteq Host /\ NoHost \in Host
    BY SMT DEF Calls, SessionTypeOK, Host
  <2>1. [do |-> "stay", host |-> NoHost] \in [do : {"stay", "select", "remove"}, host : Host]
    BY <2>0, SMT
  <2>2. \A h \in profiles.stored : /\ [do |-> "select", host |-> h] \in [do : {"stay", "select", "remove"}, host : Host]
                                   /\ [do |-> "remove", host |-> h] \in [do : {"stay", "select", "remove"}, host : Host]
    BY <2>0, SMT
  <2> QED  BY <2>1, <2>2 DEF PressLock
<1> DEFINE q == [at |-> "lock", then |-> then, started |-> generation + 1]
<1>2. q \in Closing /\ q.at = "lock" /\ q.started = generation + 1
  BY <1>0, SMT DEF Closing
<1>3. q # NoTask
  BY <1>2, SMT DEF Closing, NoTask
<1>4. Fits("lock", q)
  BY <1>2, TaskNames DEF Fits
<1>5. /\ task["lock"].at = "idle" /\ task' = [task EXCEPT !["lock"] = q] /\ generation' = generation + 1
      /\ inbox' = Append(inbox, [task |-> "lock", what |-> "lock", host |-> NoHost])
      /\ hurried' = (hurried \/ Turning)
      /\ UNCHANGED <<wasm, wire, outbox, page, profiles, opened>>
  BY <1>1 DEF Locking, Post
<1>7. NoHost \in Host /\ "lock" \in PageTask
  BY TaskNames DEF Host
<1> HIDE DEF q
<1>8. Begins("lock", q, NoHost)
  BY <1>0, <1>2, <1>3, <1>4, <1>5, <1>7 DEF Begins
<1> QED  BY <1>5, <1>8 DEF q

LEMMA AskBegins ==
    ASSUME Calls, PressRefresh \/ PressChange
    PROVE  \E t \in {"refresh", "change"}, w \in {"me", "change"} :
               /\ Begins(t, [at |-> w, started |-> generation], NoHost)
               /\ UNCHANGED <<generation, hurried>>
<1>0. page \in Page /\ generation \in Nat /\ hurried \in BOOLEAN
  BY PageTyped
<1>1. PICK t \in {"refresh", "change"}, w \in {"me", "change"} :
        /\ task[t].at = "idle" /\ task' = [task EXCEPT ![t] = [at |-> w, started |-> generation]]
        /\ inbox' = Append(inbox, [task |-> t, what |-> w, host |-> NoHost])
        /\ page' = [page EXCEPT !.busy = TRUE]
        /\ UNCHANGED <<wasm, wire, outbox, generation, profiles, opened, hurried>>
  BY DEF PressRefresh, PressChange, Post
<1> DEFINE q == [at |-> w, started |-> generation]
<1>2. q \in Asking /\ q.at = w /\ q.started = generation
  BY <1>0, SMT DEF Asking
<1>3. q # NoTask
  BY <1>2, SMT DEF Asking, NoTask
<1>4. Fits(t, q)
  BY <1>2, TaskNames DEF Fits
<1>5. NoHost \in Host /\ t \in PageTask /\ w \in {"unlock", "lock", "me", "change"} /\ w # "unlock"
  BY TaskNames DEF Host
<1> HIDE DEF q
<1>6. task' = [task EXCEPT ![t] = q] /\ inbox' = Append(inbox, [task |-> t, what |-> q.at, host |-> NoHost])
  BY <1>1, <1>2 DEF q
<1>7. Begins(t, q, NoHost)
  BY <1>0, <1>1, <1>2, <1>3, <1>4, <1>5, <1>6, PageTyped DEF Begins
<1> QED  BY <1>1, <1>7 DEF q

LEMMA BeginsCalls ==
    ASSUME Calls, NEW t, NEW q, NEW h, Begins(t, q, h), generation' \in Nat
    PROVE  Calls' /\ Unsent(t)
<1> DEFINE m == [task |-> t, what |-> q.at, host |-> h]
<1>1. m \in Message /\ m.task = t /\ m.what = q.at /\ m.host = h
  BY SMT DEF Begins, Message
<1>2. Unsent(t)
  BY IdleUnsent DEF Begins
<1>3. /\ t \in PageTask /\ Fits(t, q) /\ task' = [task EXCEPT ![t] = q] /\ inbox' = Append(inbox, m)
      /\ m.what = "unlock" => m.host = q.host
      /\ UNCHANGED <<wasm, wire, outbox, profiles, opened>> /\ page' \in Page /\ hurried' \in BOOLEAN
  BY <1>1 DEF Begins
<1> HIDE DEF m
<1>4. Matched' /\ Sole'
  BY <1>1, <1>2, <1>3, PostCalls
<1>5. inbox' \in Seq(Message)
  BY <1>1, <1>3, AppendAt DEF Calls, SessionTypeOK
<1>6. SessionTypeOK'
  BY <1>3, <1>5, TaskTyped DEF Calls, SessionTypeOK, Page
<1> QED  BY <1>2, <1>4, <1>6 DEF Calls

\* An answer is heard.
LEMMA OpensCalls ==
    ASSUME Calls, HearWorker, Opens(outbox[1])
    PROVE  Calls'
<1> DEFINE t == outbox[1].task
           q == [at |-> "me", host |-> task[t].host, new |-> task[t].new, started |-> generation + 1]
           m == [task |-> t, what |-> "me", host |-> NoHost]
<1>1. /\ outbox # <<>> /\ outbox' = Tail(outbox) /\ UNCHANGED <<wasm, wire, hurried, profiles>>
      /\ t \in UnlockTask /\ task[t] \in Unlocking /\ generation' = generation + 1
      /\ outbox[1].host = task[t].host /\ task[t].host \in AdminHost /\ opened' = outbox[1].host
      /\ page' = [unlocked |-> TRUE, me |-> NoHost, data |-> NoHost, busy |-> page.busy]
      /\ task' = [task EXCEPT ![t] = q] /\ inbox' = Append(inbox, m)
  BY HearOpens
<1>2. t \in PageTask /\ page \in Page /\ generation \in Nat /\ hurried \in BOOLEAN /\ NoHost \in Host
  BY <1>1, TaskNames, PageTyped DEF Host
<1>3. q \in Unlocking /\ q.at = "me"
  BY <1>1, <1>2, SMT DEF Unlocking
<1>4. Fits(t, q)
  BY <1>1, <1>3, TaskNames DEF Fits
<1>5. m \in Message /\ m.task = t /\ m.what = "me"
  BY <1>2, SMT DEF Message
<1>6. page' \in Page
  BY <1>1, <1>2, SMT DEF Page
<1> HIDE DEF t, q, m
<1>7. Matched' /\ Sole'
  BY <1>1, <1>3, <1>4, <1>5, HearCalls DEF t
<1>8. inbox' \in Seq(Message)
  BY <1>1, <1>5, AppendAt DEF Calls, SessionTypeOK
<1>9. outbox' \in Seq(Reply) /\ opened' \in Host /\ generation' \in Nat
  BY <1>1, <1>2, HeadOfOutbox, SMT DEF Host
<1>10. SessionTypeOK'
  BY <1>1, <1>2, <1>4, <1>6, <1>8, <1>9, TaskTyped DEF Calls, SessionTypeOK, Page
<1> QED  BY <1>7, <1>10 DEF Calls

LEMMA ClosesCalls ==
    ASSUME Calls, HearWorker, outbox[1].what = "lock"
    PROVE  Calls'
<1>1. /\ outbox # <<>> /\ outbox' = Tail(outbox) /\ UNCHANGED <<wasm, wire, hurried, inbox, generation, opened>>
      /\ outbox[1].task = "lock"
      /\ page' = Blank /\ task' = [task EXCEPT !["lock"] = NoTask]
      /\ profiles' \in [stored : SUBSET AdminHost, selected : Host]
  BY HearCloses
<1>2. Fits("lock", NoTask) /\ "lock" \in PageTask
  BY TaskNames DEF Fits
<1>3. page' \in Page
  BY <1>1, SMT DEF Blank, Page, Host
<1>4. Matched' /\ Sole'
  BY <1>1, <1>2, HearCalls
<1>5. outbox' \in Seq(Reply)
  BY <1>1, HeadOfOutbox
<1>6. SessionTypeOK'
  BY <1>1, <1>2, <1>3, <1>5, TaskTyped DEF Calls, SessionTypeOK, Page
<1> QED  BY <1>4, <1>6 DEF Calls

LEMMA GoesOnFits ==
    ASSUME Calls, NEW t \in PageTask, NEW w \in {"me", "data"}, GoesOn(t, w), NEW q, q = [task[t] EXCEPT !.at = w]
    PROVE  /\ Fits(t, q) /\ q.at = w /\ q.started = task[t].started
           /\ task[t] \in Unlocking => q \in Unlocking /\ q.host = task[t].host /\ q.new = task[t].new
<1>1. task[t] \in Unlocking \cup Asking
  BY DEF GoesOn
<1>2. ASSUME task[t] \in Unlocking
      PROVE  q \in Unlocking /\ q.at = w /\ q.started = task[t].started /\ q.host = task[t].host /\ q.new = task[t].new
  BY <1>2, SMT DEF Unlocking
<1>3. ASSUME task[t] \in Asking
      PROVE  q \in Asking /\ q.at = w /\ q.started = task[t].started
  BY <1>3, SMT DEF Asking
<1>4. /\ t \in UnlockTask => task[t] \notin Asking
      /\ t \in {"refresh", "change"} => task[t] \notin Unlocking
      /\ t = "lock" => task[t] \notin Unlocking \cup Asking
  <2>1. Unlocking \cap Asking = {}
    <3>1. \A x \in Unlocking : "host" \in DOMAIN x
      BY SMT DEF Unlocking
    <3>2. \A x \in Asking : "host" \notin DOMAIN x
      BY SMT DEF Asking
    <3> QED  BY <3>1, <3>2
  <2>2. Closing \cap (Unlocking \cup Asking) = {} /\ NoTask \notin Unlocking \cup Asking
    BY SMT DEF Closing, Unlocking, Asking, NoTask
  <2> QED  BY <2>1, <2>2, TaskNames DEF Calls, SessionTypeOK
<1> QED  BY <1>1, <1>2, <1>3, <1>4, TaskNames DEF Fits

LEMMA OthersCalls ==
    ASSUME Calls, HearWorker, ~Opens(outbox[1]), outbox[1].what # "lock"
    PROVE  Calls'
<1> DEFINE t == outbox[1].task
<1>1. /\ outbox # <<>> /\ outbox' = Tail(outbox) /\ UNCHANGED <<wasm, wire, hurried, generation, opened>>
      /\ t \in PageTask /\ ShowsOnly(outbox[1], page')
      /\ \/ Ends(t) /\ (Selects(t) \/ UNCHANGED profiles)
         \/ UNCHANGED profiles /\ \E w \in {"me", "data"} : GoesOn(t, w)
  BY HearOthers
<1>2. PICK q : /\ Fits(t, q) /\ task' = [task EXCEPT ![t] = q]
               /\ \/ UNCHANGED inbox
                  \/ \E m \in Message : /\ m.task = t /\ m.what = q.at /\ m.what # "unlock"
                                        /\ inbox' = Append(inbox, m)
  <2>1. CASE Ends(t)
    <3>1. Fits(t, NoTask)
      BY DEF Fits
    <3> QED  BY <2>1, <3>1 DEF Ends
  <2>2. ASSUME NEW w \in {"me", "data"}, GoesOn(t, w)
        PROVE  \E q : /\ Fits(t, q) /\ task' = [task EXCEPT ![t] = q]
                      /\ \E m \in Message : /\ m.task = t /\ m.what = q.at /\ m.what # "unlock"
                                            /\ inbox' = Append(inbox, m)
    <3>0. PICK q : q = [task[t] EXCEPT !.at = w]
      OBVIOUS
    <3> DEFINE m == [task |-> t, what |-> w, host |-> NoHost]
    <3>1. Fits(t, q) /\ q.at = w
      BY <1>1, <2>2, <3>0, GoesOnFits, SMT
    <3>2. task' = [task EXCEPT ![t] = q] /\ inbox' = Append(inbox, m)
      BY <2>2, <3>0 DEF GoesOn
    <3>3. m \in Message /\ m.task = t /\ m.what = w
      BY <1>1, SMT DEF Message, Host
    <3> HIDE DEF m
    <3> QED  BY <3>1, <3>2, <3>3
  <2> QED  BY <1>1, <2>1, <2>2
<1>3. Matched' /\ Sole'
  BY <1>1, <1>2, HearCalls
<1>4. outbox' \in Seq(Reply)
  BY <1>1, HeadOfOutbox
<1>5. inbox' \in Seq(Message)
  <2>1. \A m \in Message : Append(inbox, m) \in Seq(Message)
    BY AppendAt DEF Calls, SessionTypeOK
  <2> QED  BY <1>2, <2>1 DEF Calls, SessionTypeOK
<1>6. profiles' \in [stored : SUBSET AdminHost, selected : Host]
  <2>1. profiles \in [stored : SUBSET AdminHost, selected : Host]
    BY DEF Calls, SessionTypeOK
  <2>2. CASE Selects(t)
    <3>1. task[t].host \in AdminHost
      BY <2>2, SMT DEF Selects, Unlocking
    <3>2. profiles' = [stored |-> profiles.stored \cup {task[t].host}, selected |-> task[t].host]
      BY <2>2 DEF Selects
    <3> QED  BY <2>1, <3>1, <3>2, SMT DEF Host
  <2> QED  BY <1>1, <2>1, <2>2
<1>7. page' \in Page
  BY <1>1 DEF ShowsOnly, Page
<1>8. SessionTypeOK'
  BY <1>1, <1>2, <1>4, <1>5, <1>6, <1>7, TaskTyped DEF Calls, SessionTypeOK, Page
<1> QED  BY <1>3, <1>8 DEF Calls

\* The worker takes a message.
LEMMA HandleShape ==
    ASSUME Calls, HandleMessage
    PROVE  /\ inbox # <<>> /\ inbox' = Tail(inbox) /\ UNCHANGED pageVars
           /\ \/ \E r \in Reply :
                   /\ outbox' = Append(outbox, r) /\ UNCHANGED wire
                   /\ r.task = inbox[1].task /\ r.what = inbox[1].what
                   /\ \/ r.what = "unlock" /\ r.ok = TRUE /\ r.host = inbox[1].host /\ wasm' = r.host
                      \/ r.what = "unlock" /\ r.ok = FALSE /\ r.host = inbox[1].host /\ UNCHANGED wasm
                      \/ r.what = "lock" /\ wasm' = NoHost
                      \/ r.what \in {"me", "data", "change"} /\ r.ok = FALSE /\ UNCHANGED wasm
              \/ \E n \in Message :
                   /\ wire' = wire \cup {n} /\ UNCHANGED <<outbox, wasm>> /\ wasm # NoHost
                   /\ n.task = inbox[1].task /\ n.what = inbox[1].what /\ n.host = wasm
                   /\ n.what \in {"me", "data", "change"}
<1> DEFINE m == inbox[1]
<1>1. inbox # <<>> /\ inbox' = Tail(inbox) /\ UNCHANGED pageVars /\ Head(inbox) = m /\ m \in Message
  BY HeadOfInbox DEF HandleMessage
<1>2. /\ m.task \in PageTask /\ m.what \in {"unlock", "lock", "me", "data", "change"} /\ m.host \in Host
      /\ NoHost \in Host /\ wasm \in Host
      /\ m = [task |-> m.task, what |-> m.what, host |-> m.host]
  BY <1>1, SMT DEF Message, Host, Calls, SessionTypeOK
<1>3. \A ok \in BOOLEAN, h \in Host :
         LET r == [task |-> m.task, what |-> m.what, ok |-> ok, host |-> h]
         IN  r \in Reply /\ r.task = m.task /\ r.what = m.what /\ r.ok = ok /\ r.host = h
  BY <1>2 DEF Reply
<1>4. CASE m.what = "unlock"
  <2>1. PICK ok \in BOOLEAN : wasm' = (IF ok THEN m.host ELSE wasm) /\ Answer(m, ok, m.host) /\ UNCHANGED wire
    BY <1>1, <1>4 DEF HandleMessage
  <2> DEFINE r == [task |-> m.task, what |-> m.what, ok |-> ok, host |-> m.host]
  <2>2. r \in Reply /\ r.task = m.task /\ r.what = m.what /\ r.ok = ok /\ r.host = m.host
    BY <1>2, <1>3
  <2>3. outbox' = Append(outbox, r)
    BY <2>1 DEF Answer
  <2> HIDE DEF r
  <2>4. (ok = TRUE /\ wasm' = r.host) \/ (ok = FALSE /\ UNCHANGED wasm)
    BY <2>1, <2>2
  <2> QED  BY <1>1, <1>4, <2>1, <2>2, <2>3, <2>4
<1>5. CASE m.what = "lock"
  <2> DEFINE r == [task |-> m.task, what |-> m.what, ok |-> TRUE, host |-> NoHost]
  <2>1. wasm' = NoHost /\ UNCHANGED wire /\ outbox' = Append(outbox, r)
    BY <1>1, <1>5 DEF HandleMessage, Answer
  <2>2. r \in Reply /\ r.task = m.task /\ r.what = m.what
    BY <1>2, <1>3
  <2> HIDE DEF r
  <2> QED  BY <1>1, <1>5, <2>1, <2>2
<1>6. CASE m.what \in {"me", "data", "change"}
  <2>0. /\ IF wasm = NoHost
           THEN Answer(m, FALSE, NoHost) /\ UNCHANGED wire
           ELSE wire' = wire \cup {[m EXCEPT !.host = wasm]} /\ UNCHANGED outbox
        /\ UNCHANGED wasm
    BY <1>1, <1>6 DEF HandleMessage
  <2>1. CASE wasm = NoHost
    <3> DEFINE r == [task |-> m.task, what |-> m.what, ok |-> FALSE, host |-> NoHost]
    <3>1. UNCHANGED <<wasm, wire>> /\ outbox' = Append(outbox, r)
      BY <2>0, <2>1 DEF Answer
    <3>2. r \in Reply /\ r.task = m.task /\ r.what = m.what /\ r.ok = FALSE
      BY <1>2, <1>3
    <3> HIDE DEF r
    <3> QED  BY <1>1, <1>6, <3>1, <3>2
  <2>2. CASE wasm # NoHost
    <3> DEFINE n == [m EXCEPT !.host = wasm]
    <3>1. wire' = wire \cup {n} /\ UNCHANGED <<outbox, wasm>>
      BY <2>0, <2>2
    <3>2. n \in Message /\ n.task = m.task /\ n.what = m.what /\ n.host = wasm
      BY <1>1, <1>2, SMT DEF Message
    <3> HIDE DEF n
    <3> QED  BY <1>1, <1>6, <2>2, <3>1, <3>2
  <2> QED  BY <2>1, <2>2
<1> QED  BY <1>2, <1>4, <1>5, <1>6

LEMMA HandleKeepsCalls ==
    ASSUME Calls, HandleMessage
    PROVE  Calls'
<1>1. inbox # <<>> /\ inbox' = Tail(inbox) /\ UNCHANGED pageVars
  BY HandleShape
<1>2. UNCHANGED <<generation, page, profiles, task, opened, hurried>> /\ inbox' \in Seq(Message)
  BY <1>1, HeadOfInbox DEF pageVars
<1>3. ASSUME NEW r \in Reply, outbox' = Append(outbox, r), UNCHANGED wire, r.task = inbox[1].task, r.what = inbox[1].what,
             r.what = "unlock" => r.host = inbox[1].host, wasm' \in Host
      PROVE  Calls'
  <2>1. Matched' /\ Sole'
    BY <1>1, <1>2, <1>3, HandleCalls
  <2>2. outbox' \in Seq(Reply)
    BY <1>3, AppendAt DEF Calls, SessionTypeOK
  <2>3. SessionTypeOK'
    BY <1>2, <1>3, <2>2 DEF Calls, SessionTypeOK
  <2> QED  BY <2>1, <2>3 DEF Calls
<1>4. ASSUME NEW n \in Message, wire' = wire \cup {n}, UNCHANGED <<outbox, wasm>>, wasm # NoHost,
             n.task = inbox[1].task, n.what = inbox[1].what, n.host = wasm, n.what \in {"me", "data", "change"}
      PROVE  Calls'
  <2>1. Matched' /\ Sole'
    BY <1>1, <1>2, <1>4, HandleCalls
  <2>2. SessionTypeOK'
    BY <1>2, <1>4 DEF Calls, SessionTypeOK
  <2> QED  BY <2>1, <2>2 DEF Calls
<1>5. wasm \in Host /\ NoHost \in Host /\ \A r \in Reply : r.host \in Host
  BY SMT DEF Calls, SessionTypeOK, Host, Reply
<1> QED  BY <1>3, <1>4, <1>5, HandleShape

LEMMA HostKeepsCalls ==
    ASSUME Calls, NEW m \in wire, HostAnswers(m)
    PROVE  /\ Calls' /\ UNCHANGED <<wasm, inbox, generation, page, profiles, task, opened, hurried>>
           /\ wire' = wire \ {m}
           /\ \E r \in Reply : /\ r.task = m.task /\ r.what = m.what /\ r.host = m.host /\ outbox' = Append(outbox, r)
<1>1. PICK ok \in BOOLEAN : Answer(m, ok, m.host)
  BY DEF HostAnswers
<1> DEFINE r == [task |-> m.task, what |-> m.what, ok |-> ok, host |-> m.host]
<1>2. UNCHANGED <<wasm, inbox, generation, page, profiles, task, opened, hurried>> /\ wire' = wire \ {m}
  BY DEF HostAnswers, pageVars
<1>3. m \in Message
  BY DEF Calls, SessionTypeOK
<1>4. r \in Reply /\ r.task = m.task /\ r.what = m.what /\ r.host = m.host
  BY <1>3, SMT DEF Message, Reply
<1>5. outbox' = Append(outbox, r)
  BY <1>1 DEF Answer
<1> HIDE DEF r
<1>6. Matched' /\ Sole'
  BY <1>2, <1>4, <1>5, HostCalls
<1>7. outbox' \in Seq(Reply)
  BY <1>4, <1>5, AppendAt DEF Calls, SessionTypeOK
<1>8. SessionTypeOK'
  BY <1>2, <1>7 DEF Calls, SessionTypeOK
<1> QED  BY <1>2, <1>4, <1>5, <1>6, <1>8 DEF Calls

Seen == Calls /\ Worker /\ Fetched /\ Shows

\* What is left in the outbox once its first answer is heard, and what is there
\* once another is sent.
LEMMA Shifted ==
    ASSUME Calls, outbox # <<>>, outbox' = Tail(outbox)
    PROVE  /\ 1 \in DOMAIN outbox /\ DOMAIN outbox \subseteq Nat \ {0} /\ DOMAIN outbox' \subseteq Nat \ {0}
           /\ \A i \in DOMAIN outbox' : i + 1 \in DOMAIN outbox /\ outbox'[i] = outbox[i + 1] /\ outbox[i + 1].task # outbox[1].task
           /\ \A i \in Opening' : i \in DOMAIN outbox' /\ i + 1 \in Opening
           /\ \A i \in Closes' : i \in DOMAIN outbox' /\ i + 1 \in Closes
           /\ \A j \in Opening : j \in DOMAIN outbox /\ (j # 1 => j - 1 \in Opening')
           /\ \A j \in Closes : j \in DOMAIN outbox /\ (j # 1 => j - 1 \in Closes')
<1>1. /\ 1 \in DOMAIN outbox /\ DOMAIN outbox = 1 .. Len(outbox) /\ Len(outbox) \in Nat \ {0}
      /\ DOMAIN outbox' = 1 .. (Len(outbox) - 1)
      /\ \A i \in DOMAIN outbox' : i + 1 \in DOMAIN outbox /\ outbox'[i] = outbox[i + 1] /\ outbox[i + 1].task # outbox[1].task
  BY HeadOfOutbox
<1>2. DOMAIN outbox \subseteq Nat \ {0} /\ DOMAIN outbox' \subseteq Nat \ {0}
  BY <1>1, SMT
<1>3. \A i \in Opening' : i \in DOMAIN outbox' /\ i + 1 \in Opening
  BY <1>1 DEF Opening, Opens
<1>4. \A i \in Closes' : i \in DOMAIN outbox' /\ i + 1 \in Closes
  BY <1>1 DEF Closes
<1>5. \A j \in DOMAIN outbox : j # 1 => j - 1 \in DOMAIN outbox' /\ outbox'[j - 1] = outbox[j]
  BY <1>1, SMT
<1>6. \A j \in Opening : j \in DOMAIN outbox /\ (j # 1 => j - 1 \in Opening')
  BY <1>5 DEF Opening, Opens
<1>7. \A j \in Closes : j \in DOMAIN outbox /\ (j # 1 => j - 1 \in Closes')
  BY <1>5 DEF Closes
<1> QED  BY <1>1, <1>2, <1>3, <1>4, <1>6, <1>7

LEMMA Grown ==
    ASSUME Calls, NEW r \in Reply, outbox' = Append(outbox, r), NEW n, n = Len(outbox) + 1
    PROVE  /\ n \in Nat /\ n \in DOMAIN outbox' /\ outbox'[n] = r /\ DOMAIN outbox \subseteq Nat
           /\ \A i \in DOMAIN outbox : i < n /\ i \in DOMAIN outbox' /\ outbox'[i] = outbox[i]
           /\ \A i \in DOMAIN outbox' : i # n => i \in DOMAIN outbox
           /\ Opening \subseteq DOMAIN outbox /\ Closes \subseteq DOMAIN outbox
           /\ Opening' = IF Opens(r) THEN Opening \cup {n} ELSE Opening
           /\ Closes' = IF r.what = "lock" THEN Closes \cup {n} ELSE Closes
<1>1. /\ DOMAIN outbox = 1 .. Len(outbox) /\ Len(outbox) \in Nat
      /\ DOMAIN outbox' = 1 .. (Len(outbox) + 1)
      /\ \A i \in 1 .. Len(outbox) : outbox'[i] = outbox[i]
      /\ outbox'[Len(outbox) + 1] = r
  BY AppendAt, SMT DEF Calls, SessionTypeOK
<1>2. /\ n \in Nat /\ n \in DOMAIN outbox' /\ outbox'[n] = r /\ DOMAIN outbox \subseteq Nat
      /\ \A i \in DOMAIN outbox : i < n /\ i # n /\ i \in DOMAIN outbox' /\ outbox'[i] = outbox[i]
      /\ \A i \in DOMAIN outbox' : i # n => i \in DOMAIN outbox
  BY <1>1, SMT
<1>3. Opening' = IF Opens(r) THEN Opening \cup {n} ELSE Opening
  <2>1. \A i : i \in Opening' <=> (i \in DOMAIN outbox' /\ Opens(outbox'[i]))
    BY DEF Opening, Opens
  <2>2. \A i : i \in Opening <=> (i \in DOMAIN outbox /\ Opens(outbox[i]))
    BY DEF Opening
  <2>3. \A i : i \in Opening' <=> i \in (IF Opens(r) THEN Opening \cup {n} ELSE Opening)
    BY <1>2, <2>1, <2>2
  <2> QED  BY <2>3
<1>4. Closes' = IF r.what = "lock" THEN Closes \cup {n} ELSE Closes
  <2>1. \A i : i \in Closes' <=> (i \in DOMAIN outbox' /\ outbox'[i].what = "lock")
    BY DEF Closes
  <2>2. \A i : i \in Closes <=> (i \in DOMAIN outbox /\ outbox[i].what = "lock")
    BY DEF Closes
  <2>3. \A i : i \in Closes' <=> i \in (IF r.what = "lock" THEN Closes \cup {n} ELSE Closes)
    BY <1>2, <2>1, <2>2, SMT
  <2> QED  BY <2>3
<1> QED  BY <1>2, <1>3, <1>4 DEF Opening, Closes

\* The inbox, when its first message is taken and when another is posted.
LEMMA InboxShifted ==
    ASSUME Calls, inbox # <<>>, inbox' = Tail(inbox)
    PROVE  /\ 1 \in DOMAIN inbox /\ DOMAIN inbox \subseteq Nat \ {0} /\ DOMAIN inbox' \subseteq Nat \ {0}
           /\ \A i \in DOMAIN inbox' : i + 1 \in DOMAIN inbox /\ inbox'[i] = inbox[i + 1]
<1>1. /\ 1 \in DOMAIN inbox /\ DOMAIN inbox = 1 .. Len(inbox) /\ Len(inbox) \in Nat \ {0}
      /\ DOMAIN inbox' = 1 .. (Len(inbox) - 1)
      /\ \A i \in DOMAIN inbox' : i + 1 \in DOMAIN inbox /\ inbox'[i] = inbox[i + 1]
  BY HeadOfInbox
<1> QED  BY <1>1, SMT

LEMMA InboxGrown ==
    ASSUME Calls, NEW m \in Message, inbox' = Append(inbox, m), NEW n, n = Len(inbox) + 1
    PROVE  /\ n \in Nat /\ n \in DOMAIN inbox' /\ inbox'[n] = m /\ DOMAIN inbox \subseteq Nat
           /\ \A i \in DOMAIN inbox : i < n /\ i \in DOMAIN inbox' /\ inbox'[i] = inbox[i]
           /\ \A i \in DOMAIN inbox' : i # n => i \in DOMAIN inbox /\ inbox'[i] = inbox[i] /\ i < n
<1>1. /\ DOMAIN inbox = 1 .. Len(inbox) /\ Len(inbox) \in Nat
      /\ DOMAIN inbox' = 1 .. (Len(inbox) + 1)
      /\ \A i \in 1 .. Len(inbox) : inbox'[i] = inbox[i]
      /\ inbox'[Len(inbox) + 1] = m
  BY AppendAt, SMT DEF Calls, SessionTypeOK
<1> QED  BY <1>1, SMT

\* A call begins: the requests under way are not told apart from the new one,
\* unless it is a lock, which none of them outlives.
LEMMA BeginsSeen ==
    ASSUME Seen, NEW t, NEW q, NEW h, Begins(t, q, h),
           \/ generation' = generation /\ q.at # "lock"
           \/ generation' = generation + 1 /\ q.at = "lock"
    PROVE  Seen'
<1>0. Calls /\ generation \in Nat /\ t \in PageTask
  BY PageTyped DEF Seen, Begins
<1>1. generation' \in Nat /\ generation <= generation'
  BY <1>0, SMT
<1>2. Calls' /\ Unsent(t)
  BY <1>0, <1>1, BeginsCalls
<1>3. UNCHANGED <<wasm, wire, outbox, profiles, opened, Opening, Closes, View>>
  BY DEF Begins, Opening, Closes, Opens, View
<1>4. Worker' /\ Shows'
  BY <1>3 DEF Seen, Worker, Shows, Begins
<1> DEFINE m == [task |-> t, what |-> q.at, host |-> h]
           n == Len(inbox) + 1
<1>5. m \in Message /\ m.task = t /\ m.what = q.at /\ inbox' = Append(inbox, m)
  BY SMT DEF Begins, Message
<1>6. task'[t] = q /\ \A s \in PageTask \ {t} : task'[s] = task[s]
  BY <1>0, TaskTyped DEF Begins, Calls
<1> HIDE DEF m, n
<1>7. /\ n \in Nat /\ inbox'[n] = m /\ DOMAIN inbox \subseteq Nat
      /\ \A i \in DOMAIN inbox' : i # n => i \in DOMAIN inbox /\ inbox'[i] = inbox[i] /\ i < n
  BY <1>0, <1>5, InboxGrown DEF n
<1>8. Begun'
  <2>1. q.started = generation'
    BY DEF Begins
  <2>2. \A s \in PageTask \ {t} : task[s].at # "idle" => task[s].started \in Nat /\ task[s].started <= generation
    <3>1. \A s \in PageTask : task[s].at # "idle" => task[s] \in Unlocking \cup Closing \cup Asking
      BY <1>0, CallKinds
    <3>2. \A x \in Unlocking \cup Closing \cup Asking : x.started \in Nat
      BY SMT DEF Unlocking, Closing, Asking
    <3> QED  BY <3>1, <3>2 DEF Seen, Fetched, Begun
  <2> QED  BY <1>0, <1>1, <1>6, <2>1, <2>2, SMT DEF Begun
<1>9. CASE q.at = "lock"
  <2>1. \A x : (x.task \in PageTask \ {t} /\ x.what = task[x.task].at) => ~Currently(x, task', generation')
    <3>1. \A s \in PageTask : task[s].at # "idle" => task[s].started <= generation
      BY DEF Seen, Fetched, Begun
    <3>2. \A s \in PageTask : task[s].at # "idle" => task[s].started \in Nat
      <4>1. \A s \in PageTask : task[s].at # "idle" => task[s] \in Unlocking \cup Closing \cup Asking
        BY <1>0, CallKinds
      <4>2. \A x \in Unlocking \cup Closing \cup Asking : x.started \in Nat
        BY SMT DEF Unlocking, Closing, Asking
      <4> QED  BY <4>1, <4>2
    <3> QED  BY <1>0, <1>6, <1>9, <3>1, <3>2, SMT DEF Currently
  <2>2. \A i \in DOMAIN inbox' : ~Currently(inbox'[i], task', generation')
    <3>1. \A i \in DOMAIN inbox : inbox[i].task \in PageTask \ {t} /\ inbox[i].what = task[inbox[i].task].at
      BY <1>0, <1>2, Typed DEF Calls, Matched, Matches, Unsent, Message
    <3>2. ~Currently(m, task', generation')
      BY <1>5, <1>9 DEF Currently
    <3> QED  BY <1>7, <2>1, <3>1, <3>2
  <2>3. \A x \in wire : ~Currently(x, task', generation')
    <3>1. \A x \in wire : x.task \in PageTask \ {t} /\ x.what = task[x.task].at
      BY <1>0, <1>2, Typed DEF Calls, Matched, Matches, Unsent, Message
    <3> QED  BY <2>1, <3>1
  <2>4. \A i \in DOMAIN outbox : ~Currently(outbox[i], task', generation')
    <3>1. \A i \in DOMAIN outbox : outbox[i].task \in PageTask \ {t} /\ outbox[i].what = task[outbox[i].task].at
      BY <1>0, <1>2, Typed DEF Calls, Matched, Matches, Unsent, Reply
    <3> QED  BY <2>1, <3>1
  <2>5. InOrder' /\ Asked' /\ Answered'
    BY <1>3, <2>2, <2>3, <2>4 DEF InOrder, Asked, Answered, Current
  <2> QED  BY <1>2, <1>4, <1>8, <2>5 DEF Seen, Fetched
<1>10. CASE q.at # "lock"
  <2>0. generation' = generation
    BY <1>10
  <2>1. \A x : x.task \in PageTask \ {t} => (Currently(x, task', generation') <=> Current(x))
    BY <1>6, <2>0 DEF Currently, Current
  <2>2. \A i \in DOMAIN inbox : Currently(inbox[i], task', generation') => Current(inbox[i])
    BY <1>0, <1>2, <2>1, Typed DEF Calls, Unsent, Message
  <2>3. \A x \in wire : Currently(x, task', generation') => Current(x)
    BY <1>0, <1>2, <2>1, Typed DEF Calls, Unsent, Message
  <2>4. \A i \in DOMAIN outbox : Currently(outbox[i], task', generation') => Current(outbox[i])
    BY <1>0, <1>2, <2>1, Typed DEF Calls, Unsent, Reply
  <2>5. InOrder'
    <3> SUFFICES ASSUME NEW i \in DOMAIN inbox', NEW j \in DOMAIN inbox',
                        Currently(inbox'[i], task', generation'), inbox'[j].what = "lock"
                 PROVE  j < i
      BY DEF InOrder, Current
    <3>1. j # n
      BY <1>5, <1>7, <1>10
    <3>2. CASE i = n
      BY <1>7, <3>1, <3>2
    <3>3. CASE i # n
      BY <1>7, <2>2, <3>1, <3>3 DEF Seen, Fetched, InOrder
    <3> QED  BY <3>2, <3>3
  <2>6. Asked'
    <3>1. (\A j \in DOMAIN inbox : inbox[j].what # "lock") => \A j \in DOMAIN inbox' : inbox'[j].what # "lock"
      BY <1>5, <1>7, <1>10
    <3> QED  BY <1>3, <2>3, <3>1 DEF Seen, Fetched, Asked, Current
  <2>7. Answered'
    BY <1>3, <2>4 DEF Seen, Fetched, Answered, Current
  <2> QED  BY <1>2, <1>4, <1>8, <2>5, <2>6, <2>7 DEF Seen, Fetched
<1> QED  BY <1>9, <1>10

\* The worker takes a message.
LEMMA HandleSeen ==
    ASSUME Seen, HandleMessage
    PROVE  Seen'
<1>0. Calls /\ Calls'
  BY HandleKeepsCalls DEF Seen
<1>1. inbox # <<>> /\ inbox' = Tail(inbox) /\ UNCHANGED <<generation, page, profiles, task, opened, hurried, View>>
  BY <1>0, HandleShape DEF pageVars, View
<1>2. /\ 1 \in DOMAIN inbox /\ DOMAIN inbox \subseteq Nat \ {0} /\ DOMAIN inbox' \subseteq Nat \ {0}
      /\ \A i \in DOMAIN inbox' : i + 1 \in DOMAIN inbox /\ inbox'[i] = inbox[i + 1]
  BY <1>0, <1>1, InboxShifted
<1>3. \A x : Currently(x, task', generation') <=> Current(x)
  BY <1>1 DEF Currently, Current
<1>4. Begun' /\ Shows'
  BY <1>1 DEF Seen, Fetched, Begun, Shows
<1>5. InOrder'
  <2> SUFFICES ASSUME NEW i \in DOMAIN inbox', NEW j \in DOMAIN inbox', Current(inbox'[i]), inbox'[j].what = "lock"
               PROVE  j < i
    BY <1>3 DEF InOrder, Current
  <2>1. j + 1 < i + 1
    BY <1>2 DEF Seen, Fetched, InOrder
  <2> QED  BY <1>2, <2>1, SMT
<1>6. \A m : m \in wire /\ Current(m) => \A j \in DOMAIN inbox' : inbox'[j].what # "lock"
  BY <1>2 DEF Seen, Fetched, Asked
<1>7. ASSUME NEW r \in Reply, outbox' = Append(outbox, r), UNCHANGED wire, r.task = inbox[1].task, r.what = inbox[1].what,
             \/ r.what = "unlock" /\ r.ok = TRUE /\ r.host = inbox[1].host /\ wasm' = r.host
             \/ r.what = "unlock" /\ r.ok = FALSE /\ r.host = inbox[1].host /\ UNCHANGED wasm
             \/ r.what = "lock" /\ wasm' = NoHost
             \/ r.what \in {"me", "data", "change"} /\ r.ok = FALSE /\ UNCHANGED wasm
      PROVE  Seen'
  <2> DEFINE n == Len(outbox) + 1
  <2>1. /\ n \in Nat /\ n \in DOMAIN outbox' /\ outbox'[n] = r /\ DOMAIN outbox \subseteq Nat
        /\ \A i \in DOMAIN outbox : i < n /\ i \in DOMAIN outbox' /\ outbox'[i] = outbox[i]
        /\ \A i \in DOMAIN outbox' : i # n => i \in DOMAIN outbox
        /\ Opening \subseteq DOMAIN outbox /\ Closes \subseteq DOMAIN outbox
        /\ Opening' = IF Opens(r) THEN Opening \cup {n} ELSE Opening
        /\ Closes' = IF r.what = "lock" THEN Closes \cup {n} ELSE Closes
    BY <1>0, <1>7, Grown
  <2> HIDE DEF n
  <2>2. Opening \subseteq Opening' /\ \A j \in Closes' : j \in Closes \/ j = n
    BY <2>1
  <2>3. ~(Current(r) /\ r.ok = TRUE)
    BY <1>7 DEF Current, Currently
  <2>4. Answered'
    <3> SUFFICES ASSUME NEW i \in DOMAIN outbox', Current(outbox'[i]), outbox'[i].ok = TRUE
                 PROVE  /\ outbox'[i].host # NoHost
                        /\ (\E j \in Opening' : j < i) \/ (View = outbox'[i].host /\ \A j \in Closes' : j > i)
      BY <1>1, <1>3 DEF Answered, Current
    <3>1. i \in DOMAIN outbox /\ outbox'[i] = outbox[i] /\ i < n
      BY <2>1, <2>3
    <3>2. /\ outbox[i].host # NoHost
          /\ (\E j \in Opening : j < i) \/ (View = outbox[i].host /\ \A j \in Closes : j > i)
      BY <3>1 DEF Seen, Fetched, Answered
    <3>3. n > i
      BY <2>1, <3>1, SMT
    <3> QED  BY <2>2, <3>1, <3>2, <3>3
  <2>5. Asked'
    <3>1. CASE r.what = "lock"
      <4>1. \A m \in wire : ~Current(m)
        BY <1>2, <1>7, <3>1 DEF Seen, Fetched, Asked
      <4> QED  BY <1>3, <1>7, <4>1 DEF Asked, Current
    <3>2. CASE r.what # "lock"
      <4>1. Closes' = Closes
        BY <2>1, <3>2
      <4>2. Opening # {} => Opening' # {}
        BY <2>2
      <4> QED  BY <1>1, <1>3, <1>6, <1>7, <4>1, <4>2 DEF Asked, Seen, Fetched, Current
    <3> QED  BY <3>1, <3>2
  <2>6. Worker'
    <3>1. CASE Opens(r)
      <4>1. Opening' = Opening \cup {n} /\ Closes' = Closes /\ wasm' = r.host
        BY <1>7, <2>1, <3>1 DEF Opens
      <4>2. ASSUME NEW i \in Opening', \A j \in Opening' : j <= i
            PROVE  i = n
        <5>1. n <= i /\ (i = n \/ (i \in DOMAIN outbox /\ i < n))
          BY <2>1, <4>1, <4>2
        <5> QED  BY <2>1, <5>1, SMT
      <4>3. \A j \in Closes' : ~(j > n)
        BY <2>1, <4>1, SMT
      <4> QED  BY <2>1, <4>1, <4>2, <4>3 DEF Worker
    <3>2. CASE r.what = "lock"
      <4>1. wasm' = NoHost
        BY <1>7, <3>2
      <4> QED  BY <4>1 DEF Worker
    <3>3. CASE ~Opens(r) /\ r.what # "lock"
      <4>1. UNCHANGED <<Opening, Closes, wasm>>
        BY <1>7, <2>1, <3>3 DEF Opens
      <4>2. \A i \in Opening : outbox'[i] = outbox[i]
        BY <2>1
      <4> QED  BY <1>1, <4>1, <4>2 DEF Seen, Worker
    <3> QED  BY <3>1, <3>2, <3>3
  <2> QED  BY <1>0, <1>4, <1>5, <2>4, <2>5, <2>6 DEF Seen, Fetched
<1>8. ASSUME NEW x \in Message, wire' = wire \cup {x}, UNCHANGED <<outbox, wasm>>, wasm # NoHost,
             x.task = inbox[1].task, x.what = inbox[1].what, x.host = wasm, x.what \in {"me", "data", "change"}
      PROVE  Seen'
  <2>1. UNCHANGED <<Opening, Closes>>
    BY <1>8 DEF Opening, Closes, Opens
  <2>2. Worker' /\ Answered'
    BY <1>1, <1>3, <1>8, <2>1 DEF Seen, Worker, Fetched, Answered, Current
  <2>3. ASSUME Current(x)
        PROVE  /\ \A j \in DOMAIN inbox' : inbox'[j].what # "lock"
               /\ Opening # {} \/ (View = x.host /\ Closes = {})
    <3>1. Current(inbox[1])
      BY <1>8, <2>3 DEF Current, Currently
    <3>2. \A j \in DOMAIN inbox : inbox[j].what = "lock" => j < 1
      BY <1>2, <3>1 DEF Seen, Fetched, InOrder
    <3>3. \A j \in DOMAIN inbox : ~(j < 1)
      BY <1>2, SMT
    <3>4. Opening = {} => wasm \in {NoHost, View} /\ (Closes # {} => wasm = NoHost)
      BY DEF Seen, Worker
    <3> QED  BY <1>2, <1>8, <3>2, <3>3, <3>4
  <2>4. Asked'
    BY <1>1, <1>3, <1>6, <1>8, <2>1, <2>3 DEF Seen, Fetched, Asked, Current
  <2> QED  BY <1>0, <1>4, <1>5, <2>2, <2>4 DEF Seen, Fetched
<1> QED  BY <1>0, <1>7, <1>8, HandleShape

\* A host answers.
LEMMA HostSeen ==
    ASSUME Seen, NEW m \in wire, HostAnswers(m)
    PROVE  Seen'
<1>1. /\ Calls /\ Calls' /\ UNCHANGED <<wasm, inbox, generation, page, profiles, task, opened, hurried>>
      /\ wire' = wire \ {m}
  BY HostKeepsCalls DEF Seen
<1>2. PICK r \in Reply : r.task = m.task /\ r.what = m.what /\ r.host = m.host /\ outbox' = Append(outbox, r)
  BY HostKeepsCalls DEF Seen
<1>3. r.what \in {"me", "data", "change"} /\ r.host # NoHost
  BY <1>1, <1>2 DEF Calls, Matched
<1>4. ~Opens(r) /\ r.what # "lock"
  BY <1>3 DEF Opens
<1> DEFINE n == Len(outbox) + 1
<1>5. /\ n \in Nat /\ n \in DOMAIN outbox' /\ outbox'[n] = r
      /\ \A i \in DOMAIN outbox : i < n /\ i \in DOMAIN outbox' /\ outbox'[i] = outbox[i]
      /\ \A i \in DOMAIN outbox' : i # n => i \in DOMAIN outbox
      /\ Opening \subseteq DOMAIN outbox /\ UNCHANGED <<Opening, Closes>>
  BY <1>1, <1>2, <1>4, Grown
<1> HIDE DEF n
<1>6. UNCHANGED View /\ \A x : Currently(x, task', generation') <=> Current(x)
  BY <1>1 DEF Currently, Current, View
<1>7. Begun' /\ Shows' /\ InOrder' /\ Asked'
  BY <1>1, <1>5, <1>6 DEF Seen, Fetched, Begun, Shows, InOrder, Asked, Current
<1>8. \A i \in Opening : outbox'[i] = outbox[i]
  BY <1>5
<1>9. Worker'
  BY <1>1, <1>5, <1>6, <1>8 DEF Seen, Worker
<1>10. Answered'
  <2> SUFFICES ASSUME NEW i \in DOMAIN outbox', Current(outbox'[i]), outbox'[i].ok = TRUE
               PROVE  /\ outbox'[i].host # NoHost
                      /\ (\E j \in Opening : j < i) \/ (View = outbox'[i].host /\ \A j \in Closes : j > i)
    BY <1>5, <1>6 DEF Answered, Current
  <2>1. CASE i = n
    <3>1. Current(m)
      BY <1>2, <1>5, <2>1 DEF Current, Currently
    <3>2. Opening # {} \/ (View = m.host /\ Closes = {})
      BY <3>1 DEF Seen, Fetched, Asked
    <3>3. \A j \in Opening : j < n
      BY <1>5
    <3> QED  BY <1>2, <1>3, <1>5, <2>1, <3>2, <3>3
  <2>2. CASE i # n
    BY <1>5, <2>2 DEF Seen, Fetched, Answered
  <2> QED  BY <2>1, <2>2
<1> QED  BY <1>1, <1>7, <1>9, <1>10 DEF Seen, Fetched

LEMMA StartedTyped ==
    ASSUME Seen
    PROVE  \A s \in PageTask : task[s].at # "idle" => task[s].started \in Nat /\ task[s].started <= generation
<1>1. \A s \in PageTask : task[s].at # "idle" => task[s] \in Unlocking \cup Closing \cup Asking
  BY CallKinds DEF Seen
<1>2. \A x \in Unlocking \cup Closing \cup Asking : x.started \in Nat
  BY SMT DEF Unlocking, Closing, Asking
<1> QED  BY <1>1, <1>2 DEF Seen, Fetched, Begun

\* The last session opened that the page is still to hear of.
LEMMA LaterOpening ==
    ASSUME Seen, outbox # <<>>, outbox' = Tail(outbox), NEW i \in Opening', \A j \in Opening' : j <= i
    PROVE  wasm \in {NoHost, outbox'[i].host} /\ ((\E j \in Closes' : j > i) => wasm = NoHost)
<1>0. /\ DOMAIN outbox \subseteq Nat \ {0} /\ DOMAIN outbox' \subseteq Nat \ {0}
      /\ \A k \in DOMAIN outbox' : k + 1 \in DOMAIN outbox /\ outbox'[k] = outbox[k + 1]
      /\ \A k \in Opening' : k \in DOMAIN outbox' /\ k + 1 \in Opening
      /\ \A k \in Closes' : k \in DOMAIN outbox' /\ k + 1 \in Closes
      /\ \A j \in Opening : j \in DOMAIN outbox /\ (j # 1 => j - 1 \in Opening')
  BY Shifted DEF Seen
<1>1. i + 1 \in Opening /\ outbox'[i] = outbox[i + 1]
  BY <1>0
<1>2. ASSUME NEW j \in Opening PROVE j <= i + 1
  <2>1. j \in Nat /\ i \in Nat \ {0}
    BY <1>0
  <2>2. j # 1 => j - 1 <= i
    BY <1>0
  <2> QED  BY <2>1, <2>2, SMT
<1>3. (\E j \in Closes' : j > i) => \E j \in Closes : j > i + 1
  <2>1. ASSUME NEW j \in Closes', j > i PROVE j + 1 \in Closes /\ j + 1 > i + 1
    <3>1. j + 1 \in Closes /\ j \in Nat /\ i \in Nat
      BY <1>0
    <3> QED  BY <2>1, <3>1, SMT
  <2> QED  BY <2>1
<1> QED  BY <1>1, <1>2, <1>3 DEF Seen, Worker

\* The page hears of a new session: no answer is current until it asks again.
LEMMA OpensSeen ==
    ASSUME Seen, HearWorker, Opens(outbox[1])
    PROVE  Seen'
<1> DEFINE t == outbox[1].task
           q == [at |-> "me", host |-> task[t].host, new |-> task[t].new, started |-> generation + 1]
           m == [task |-> t, what |-> "me", host |-> NoHost]
           n == Len(inbox) + 1
<1>0. Calls /\ Calls' /\ generation \in Nat
  BY OpensCalls, PageTyped DEF Seen
<1>1. /\ outbox # <<>> /\ outbox' = Tail(outbox) /\ UNCHANGED <<wasm, wire, hurried, profiles>>
      /\ t \in UnlockTask /\ t \in PageTask /\ generation' = generation + 1 /\ opened' = outbox[1].host
      /\ page' = [unlocked |-> TRUE, me |-> NoHost, data |-> NoHost, busy |-> page.busy]
      /\ task' = [task EXCEPT ![t] = q] /\ inbox' = Append(inbox, m)
  BY <1>0, HearOpens, TaskNames
<1>2. m \in Message /\ m.task = t /\ m.what = "me" /\ q.started = generation + 1
  BY <1>1, SMT DEF Message, Host
<1>3. task'[t] = q /\ \A s \in PageTask \ {t} : task'[s] = task[s]
  BY <1>0, <1>1 DEF Calls, SessionTypeOK
<1> HIDE DEF t, q, m, n
<1>4. /\ n \in Nat /\ inbox'[n] = m
      /\ \A i \in DOMAIN inbox' : i # n => i \in DOMAIN inbox /\ inbox'[i] = inbox[i] /\ i < n
  BY <1>0, <1>1, <1>2, InboxGrown DEF n
<1>5. View' = outbox[1].host /\ Shows'
  <2>1. page'.unlocked = TRUE /\ page'.me = NoHost /\ page'.data = NoHost
    BY <1>1, SMT
  <2> QED  BY <1>1, <2>1 DEF View, Shows
<1>6. /\ 1 \in DOMAIN outbox /\ DOMAIN outbox \subseteq Nat \ {0} /\ DOMAIN outbox' \subseteq Nat \ {0}
      /\ \A i \in DOMAIN outbox' : i + 1 \in DOMAIN outbox /\ outbox'[i] = outbox[i + 1] /\ outbox[i + 1].task # t
      /\ \A i \in Opening' : i \in DOMAIN outbox' /\ i + 1 \in Opening
      /\ \A i \in Closes' : i \in DOMAIN outbox' /\ i + 1 \in Closes
      /\ \A j \in Opening : j \in DOMAIN outbox /\ (j # 1 => j - 1 \in Opening')
      /\ \A j \in Closes : j \in DOMAIN outbox /\ (j # 1 => j - 1 \in Closes')
  BY <1>0, <1>1, Shifted DEF t
<1>7. Begun'
  BY <1>0, <1>1, <1>2, <1>3, StartedTyped, SMT DEF Begun
<1>8. \A x : (x.task \in PageTask \ {t} /\ x.what = task[x.task].at) => ~Currently(x, task', generation')
  BY <1>0, <1>1, <1>3, StartedTyped, SMT DEF Currently
<1>9. \A i \in DOMAIN inbox : ~Currently(inbox[i], task', generation')
  <2>1. \A i \in DOMAIN inbox : inbox[i].task \in PageTask \ {t} /\ inbox[i].what = task[inbox[i].task].at
    BY <1>0, <1>1, HeadOfOutbox, Typed DEF Calls, Matched, Matches, Message, t
  <2> QED  BY <1>8, <2>1
<1>10. \A x \in wire : ~Currently(x, task', generation')
  <2>1. \A x \in wire : x.task \in PageTask \ {t} /\ x.what = task[x.task].at
    BY <1>0, <1>1, HeadOfOutbox, Typed DEF Calls, Matched, Matches, Message, t
  <2> QED  BY <1>8, <2>1
<1>11. \A i \in DOMAIN outbox' : ~Currently(outbox'[i], task', generation')
  <2>1. \A i \in DOMAIN outbox' : outbox'[i].task \in PageTask \ {t} /\ outbox'[i].what = task[outbox'[i].task].at
    <3>1. \A i \in DOMAIN outbox : outbox[i].task \in PageTask /\ outbox[i].what = task[outbox[i].task].at
      BY <1>0, Typed DEF Calls, Matched, Matches, Reply
    <3> QED  BY <1>6, <3>1, ZenonT(30)
  <2> QED  BY <1>8, <2>1
<1>12. InOrder'
  <2> SUFFICES ASSUME NEW i \in DOMAIN inbox', NEW j \in DOMAIN inbox',
                      Currently(inbox'[i], task', generation'), inbox'[j].what = "lock"
               PROVE  j < i
    BY DEF InOrder, Current
  <2>1. i = n /\ j # n
    BY <1>2, <1>4, <1>9
  <2> QED  BY <1>4, <2>1
<1>13. Asked' /\ Answered'
  BY <1>1, <1>10, <1>11 DEF Asked, Answered, Current
<1>14. Worker'
  <2>0. 1 \in Opening
    BY <1>6 DEF Opening
  <2>1. ASSUME Opening' = {}
        PROVE  wasm \in {NoHost, outbox[1].host} /\ (Closes' # {} => wasm = NoHost)
    <3>1. \A j \in Opening : j = 1
      BY <1>6, <2>1
    <3>2. \A j \in Opening : j <= 1
      BY <3>1, SMT
    <3>3. Closes' # {} => \E j \in Closes : j > 1
      <4>1. ASSUME NEW i \in Closes' PROVE i + 1 \in Closes /\ i + 1 > 1
        BY <1>6, SMT
      <4> QED  BY <4>1
    <3> QED  BY <2>0, <3>2, <3>3 DEF Seen, Worker
  <2>2. ASSUME NEW i \in Opening', \A j \in Opening' : j <= i
        PROVE  wasm \in {NoHost, outbox'[i].host} /\ ((\E j \in Closes' : j > i) => wasm = NoHost)
    BY <1>1, <2>2, LaterOpening
  <2> QED  BY <1>1, <1>5, <2>1, <2>2 DEF Worker
<1> QED  BY <1>0, <1>5, <1>7, <1>12, <1>13, <1>14 DEF Seen, Fetched

\* The page hears that the session was dropped.
LEMMA ClosesSeen ==
    ASSUME Seen, HearWorker, outbox[1].what = "lock"
    PROVE  Seen'
<1>0. Calls /\ Calls'
  BY ClosesCalls DEF Seen
<1>1. /\ outbox # <<>> /\ outbox' = Tail(outbox) /\ UNCHANGED <<wasm, wire, hurried, inbox, generation, opened>>
      /\ outbox[1].task = "lock" /\ page' = Blank /\ task' = [task EXCEPT !["lock"] = NoTask]
      /\ "lock" \in PageTask
  BY <1>0, HearCloses, TaskNames
<1>2. task'["lock"] = NoTask /\ \A s \in PageTask \ {"lock"} : task'[s] = task[s]
  BY <1>0, <1>1 DEF Calls, SessionTypeOK
<1>3. View' = NoHost /\ Shows'
  <2>1. page'.unlocked = FALSE /\ page'.me = NoHost /\ page'.data = NoHost
    BY <1>1, SMT DEF Blank
  <2> QED  BY <2>1 DEF View, Shows
<1>4. /\ 1 \in DOMAIN outbox /\ DOMAIN outbox \subseteq Nat \ {0} /\ DOMAIN outbox' \subseteq Nat \ {0}
      /\ \A i \in DOMAIN outbox' : i + 1 \in DOMAIN outbox /\ outbox'[i] = outbox[i + 1] /\ outbox[i + 1].task # "lock"
      /\ \A j \in Opening : j \in DOMAIN outbox /\ (j # 1 => j - 1 \in Opening')
  BY <1>0, <1>1, Shifted
<1>5. 1 \in Closes /\ 1 \notin Opening
  BY <1>4 DEF Closes, Opening, Opens
<1>6. NoTask.at = "idle"
  BY SMT DEF NoTask
<1>7. Begun'
  BY <1>1, <1>2, <1>6 DEF Seen, Fetched, Begun
<1>8. \A x : x.task \in PageTask \ {"lock"} => (Currently(x, task', generation') <=> Current(x))
  BY <1>1, <1>2 DEF Currently, Current
<1>9. InOrder'
  <2>1. \A i \in DOMAIN inbox : inbox[i].task \in PageTask \ {"lock"}
    BY <1>0, <1>1, HeadOfOutbox, Typed DEF Calls, Message
  <2> QED  BY <1>1, <1>8, <2>1 DEF Seen, Fetched, InOrder, Current
<1>10. Asked'
  <2>1. \A x \in wire : x.task \in PageTask \ {"lock"}
    BY <1>0, <1>1, HeadOfOutbox, Typed DEF Calls, Message
  <2>2. \A x \in wire : Current(x) => (\A j \in DOMAIN inbox : inbox[j].what # "lock") /\ Opening # {}
    BY <1>5 DEF Seen, Fetched, Asked
  <2>3. Opening # {} => Opening' # {}
    BY <1>4, <1>5
  <2> QED  BY <1>1, <1>8, <2>1, <2>2, <2>3 DEF Asked, Current
<1>11. Answered'
  <2> SUFFICES ASSUME NEW i \in DOMAIN outbox', Currently(outbox'[i], task', generation'), outbox'[i].ok = TRUE
               PROVE  outbox'[i].host # NoHost /\ \E j \in Opening' : j < i
    BY DEF Answered, Current
  <2>1. i + 1 \in DOMAIN outbox /\ outbox'[i] = outbox[i + 1] /\ i \in Nat \ {0}
    BY <1>4
  <2>2. outbox[i + 1].task \in PageTask \ {"lock"}
    BY <1>0, <1>4, <2>1, Typed DEF Calls, Reply
  <2>3. Current(outbox[i + 1])
    BY <1>8, <2>1, <2>2
  <2>4. /\ outbox[i + 1].host # NoHost
        /\ (\E j \in Opening : j < i + 1) \/ (\A j \in Closes : j > i + 1)
    BY <2>1, <2>3 DEF Seen, Fetched, Answered
  <2>5. ~(1 > i + 1)
    BY <2>1, SMT
  <2>6. PICK j \in Opening : j < i + 1
    BY <1>5, <2>4, <2>5
  <2>7. j - 1 \in Opening' /\ j \in Nat
    BY <1>4, <1>5
  <2>8. j - 1 < i
    BY <2>1, <2>6, <2>7, SMT
  <2> QED  BY <2>1, <2>4, <2>7, <2>8
<1>12. Worker'
  <2>1. ASSUME Opening' = {} PROVE wasm = NoHost
    <3>1. Opening = {}
      BY <1>4, <1>5, <2>1
    <3> QED  BY <1>5, <3>1 DEF Seen, Worker
  <2>2. ASSUME NEW i \in Opening', \A j \in Opening' : j <= i
        PROVE  wasm \in {NoHost, outbox'[i].host} /\ ((\E j \in Closes' : j > i) => wasm = NoHost)
    BY <1>1, <2>2, LaterOpening
  <2> QED  BY <1>1, <2>1, <2>2 DEF Worker
<1> QED  BY <1>0, <1>3, <1>7, <1>9, <1>10, <1>11, <1>12 DEF Seen, Fetched

\* The page hears anything else: an answer of the current generation is of the
\* session it was told of.
LEMMA OthersSeen ==
    ASSUME Seen, HearWorker, ~Opens(outbox[1]), outbox[1].what # "lock"
    PROVE  Seen'
<1> DEFINE t == outbox[1].task
<1>0. Calls /\ Calls'
  BY OthersCalls DEF Seen
<1>1. /\ outbox # <<>> /\ outbox' = Tail(outbox) /\ UNCHANGED <<wasm, wire, hurried, generation, opened>>
      /\ t \in PageTask /\ ShowsOnly(outbox[1], page')
      /\ Ends(t) \/ \E w \in {"me", "data"} : GoesOn(t, w)
  BY <1>0, HearOthers
<1>2. UNCHANGED View
  BY <1>1 DEF ShowsOnly, View
<1>3. /\ 1 \in DOMAIN outbox /\ DOMAIN outbox \subseteq Nat \ {0} /\ DOMAIN outbox' \subseteq Nat \ {0}
      /\ \A i \in DOMAIN outbox' : i + 1 \in DOMAIN outbox /\ outbox'[i] = outbox[i + 1] /\ outbox[i + 1].task # t
      /\ \A i \in Opening' : i \in DOMAIN outbox' /\ i + 1 \in Opening
      /\ \A i \in Closes' : i \in DOMAIN outbox' /\ i + 1 \in Closes
      /\ \A j \in Opening : j \in DOMAIN outbox /\ (j # 1 => j - 1 \in Opening')
      /\ \A j \in Closes : j \in DOMAIN outbox /\ (j # 1 => j - 1 \in Closes')
  BY <1>0, <1>1, Shifted
<1>4. 1 \notin Opening /\ 1 \notin Closes
  BY DEF Opening, Closes
<1>5. Shows'
  <2>1. Current(outbox[1]) /\ outbox[1].ok = TRUE => View = outbox[1].host
    <3>1. \A j \in Opening : ~(j < 1)
      BY <1>3, SMT
    <3> QED  BY <1>3, <3>1 DEF Seen, Fetched, Answered
  <2> QED  BY <1>1, <1>2, <2>1 DEF ShowsOnly, Seen, Shows
<1>6. PICK q : /\ task' = [task EXCEPT ![t] = q]
               /\ q.at = "idle" \/ (q.started = task[t].started /\ task[t].started = generation)
  <2>1. CASE Ends(t)
    <3>1. NoTask.at = "idle"
      BY SMT DEF NoTask
    <3> QED  BY <2>1, <3>1 DEF Ends
  <2>2. ASSUME NEW w \in {"me", "data"}, GoesOn(t, w) PROVE \E q : /\ task' = [task EXCEPT ![t] = q]
               /\ q.started = task[t].started /\ task[t].started = generation
    <3>1. PICK q : q = [task[t] EXCEPT !.at = w]
      OBVIOUS
    <3>2. q.started = task[t].started
      BY <1>0, <1>1, <2>2, <3>1, GoesOnFits, SMT
    <3> QED  BY <2>2, <3>1, <3>2 DEF GoesOn
  <2> QED  BY <1>1, <2>1, <2>2
<1>7. task'[t] = q /\ \A s \in PageTask \ {t} : task'[s] = task[s]
  BY <1>0, <1>1, <1>6 DEF Calls, SessionTypeOK
<1>8. Begun'
  BY <1>0, <1>1, <1>6, <1>7, PageTyped, SMT DEF Seen, Fetched, Begun
<1>9. \A x : x.task \in PageTask \ {t} => (Currently(x, task', generation') <=> Current(x))
  BY <1>1, <1>7 DEF Currently, Current
<1>10. \A i \in DOMAIN inbox : inbox[i].task \in PageTask \ {t}
  BY <1>0, <1>1, HeadOfOutbox, Typed DEF Calls, Message
<1>11. \A j \in DOMAIN inbox' : inbox'[j].what = "lock" => j \in DOMAIN inbox /\ inbox'[j] = inbox[j]
  <2>1. CASE Ends(t)
    BY <2>1 DEF Ends
  <2>2. ASSUME NEW w \in {"me", "data"}, GoesOn(t, w)
        PROVE  \A j \in DOMAIN inbox' : inbox'[j].what = "lock" => j \in DOMAIN inbox /\ inbox'[j] = inbox[j]
    <3> DEFINE m == [task |-> t, what |-> w, host |-> NoHost]
    <3>1. m \in Message /\ m.what # "lock" /\ inbox' = Append(inbox, m)
      BY <1>1, <2>2, SMT DEF Message, Host, GoesOn
    <3> HIDE DEF m
    <3>2. PICK n : n = Len(inbox) + 1
      OBVIOUS
    <3>3. inbox'[n] = m /\ \A i \in DOMAIN inbox' : i # n => i \in DOMAIN inbox /\ inbox'[i] = inbox[i]
      BY <1>0, <3>1, <3>2, InboxGrown, SMT
    <3> QED  BY <3>1, <3>3
  <2> QED  BY <1>1, <2>1, <2>2
<1>12. \A i \in DOMAIN inbox', j \in DOMAIN inbox : (i \in DOMAIN inbox /\ inbox'[i] = inbox[i]) \/ j < i
  <2>1. CASE Ends(t)
    BY <2>1 DEF Ends
  <2>2. ASSUME NEW w \in {"me", "data"}, GoesOn(t, w)
        PROVE  \A i \in DOMAIN inbox', j \in DOMAIN inbox : (i \in DOMAIN inbox /\ inbox'[i] = inbox[i]) \/ j < i
    <3> DEFINE m == [task |-> t, what |-> w, host |-> NoHost]
    <3>1. m \in Message /\ inbox' = Append(inbox, m)
      BY <1>1, <2>2, SMT DEF Message, Host, GoesOn
    <3> HIDE DEF m
    <3> QED  BY <1>0, <3>1, InboxGrown
  <2> QED  BY <1>1, <2>1, <2>2
<1>13. InOrder'
  <2> SUFFICES ASSUME NEW i \in DOMAIN inbox', NEW j \in DOMAIN inbox',
                      Currently(inbox'[i], task', generation'), inbox'[j].what = "lock"
               PROVE  j < i
    BY DEF InOrder, Current
  <2>1. j \in DOMAIN inbox /\ inbox'[j] = inbox[j]
    BY <1>11
  <2>2. CASE i \in DOMAIN inbox /\ inbox'[i] = inbox[i]
    <3>1. Current(inbox[i])
      BY <1>9, <1>10, <2>2
    <3> QED  BY <2>1, <2>2, <3>1 DEF Seen, Fetched, InOrder
  <2> QED  BY <1>12, <2>1, <2>2
<1>14. Asked'
  <2>1. \A x \in wire : x.task \in PageTask \ {t}
    BY <1>0, <1>1, HeadOfOutbox, Typed DEF Calls, Message
  <2>2. (Opening # {} => Opening' # {}) /\ (Closes = {} => Closes' = {})
    BY <1>3, <1>4
  <2>3. ASSUME NEW x \in wire, Current(x)
        PROVE  (\A j \in DOMAIN inbox' : inbox'[j].what # "lock") /\ (Opening' # {} \/ (View = x.host /\ Closes' = {}))
    <3>1. (\A j \in DOMAIN inbox : inbox[j].what # "lock") /\ (Opening # {} \/ (View = x.host /\ Closes = {}))
      BY <2>3 DEF Seen, Fetched, Asked
    <3> QED  BY <1>11, <2>2, <3>1
  <2> QED  BY <1>1, <1>2, <1>9, <2>1, <2>3 DEF Asked, Current
<1>15. Answered'
  <2> SUFFICES ASSUME NEW i \in DOMAIN outbox', Currently(outbox'[i], task', generation'), outbox'[i].ok = TRUE
               PROVE  /\ outbox'[i].host # NoHost
                      /\ (\E j \in Opening' : j < i) \/ (View = outbox'[i].host /\ \A j \in Closes' : j > i)
    BY <1>2 DEF Answered, Current
  <2>1. i + 1 \in DOMAIN outbox /\ outbox'[i] = outbox[i + 1] /\ i \in Nat \ {0} /\ outbox[i + 1].task # t
    BY <1>3
  <2>2. outbox[i + 1].task \in PageTask \ {t}
    BY <1>0, <2>1, Typed DEF Calls, Reply
  <2>3. Current(outbox[i + 1])
    BY <1>9, <2>1, <2>2
  <2>4. /\ outbox[i + 1].host # NoHost
        /\ (\E j \in Opening : j < i + 1) \/ (View = outbox[i + 1].host /\ \A j \in Closes : j > i + 1)
    BY <2>1, <2>3 DEF Seen, Fetched, Answered
  <2>5. ASSUME NEW j \in Opening, j < i + 1 PROVE j - 1 \in Opening' /\ j - 1 < i
    <3>1. j - 1 \in Opening' /\ j \in Nat
      BY <1>3, <1>4
    <3> QED  BY <2>1, <2>5, <3>1, SMT
  <2>6. ASSUME \A j \in Closes : j > i + 1, NEW j \in Closes' PROVE j > i
    <3>1. j \in Nat /\ j + 1 > i + 1
      BY <1>3, <2>6
    <3> QED  BY <2>1, <3>1, SMT
  <2> QED  BY <2>1, <2>4, <2>5, <2>6
<1>16. Worker'
  <2>1. ASSUME Opening' = {} PROVE wasm \in {NoHost, View} /\ (Closes' # {} => wasm = NoHost)
    <3>1. Opening = {} /\ (Closes' # {} => Closes # {})
      BY <1>3, <1>4, <2>1
    <3> QED  BY <3>1 DEF Seen, Worker
  <2>2. ASSUME NEW i \in Opening', \A j \in Opening' : j <= i
        PROVE  wasm \in {NoHost, outbox'[i].host} /\ ((\E j \in Closes' : j > i) => wasm = NoHost)
    BY <1>1, <2>2, LaterOpening
  <2> QED  BY <1>1, <1>2, <2>1, <2>2 DEF Worker
<1> QED  BY <1>0, <1>5, <1>8, <1>13, <1>14, <1>15, <1>16 DEF Seen, Fetched

\* The turns that are not idle, and the profile that is selected.
LEMMA BeginsSettles ==
    ASSUME Calls, Settles, NEW t, NEW q, NEW h, Begins(t, q, h),
           \/ /\ t \in UnlockTask /\ hurried' = (hurried \/ Turning)
              /\ q.at = "unlock" /\ (q.new = FALSE => q.host = profiles.selected)
           \/ t = "lock" /\ hurried' = (hurried \/ Turning) /\ q.at = "lock"
           \/ t \in {"refresh", "change"} /\ UNCHANGED hurried
    PROVE  Settles'
<1>1. /\ t \in PageTask /\ task'[t] = q /\ \A s \in PageTask \ {t} : task'[s] = task[s]
      /\ UNCHANGED <<profiles, opened>> /\ page'.unlocked = page.unlocked
  BY TaskTyped DEF Begins, Calls
<1>2. Turns \subseteq PageTask /\ UnlockTask \subseteq Turns /\ "lock" \in Turns
      /\ (\A s \in Turns : s \notin {"refresh", "change"}) /\ "lock" \notin UnlockTask
  BY TaskNames DEF Turns
<1>3. CASE t \in Turns /\ hurried' = (hurried \/ Turning)
  <2> SUFFICES ASSUME hurried' = FALSE PROVE Settles'
    BY DEF Settles
  <2>1. hurried = FALSE /\ \A s \in Turns : task[s].at = "idle"
    BY <1>3, PageTyped DEF Turning, Turns
  <2>2. \A s \in Turns : s # t => task'[s].at = "idle"
    BY <1>1, <1>2, <2>1
  <2>3. (page.unlocked = TRUE /\ task["lock"].at = "idle"
           /\ \A s \in UnlockTask : task[s].at \in {"me", "data"} => task[s].new = FALSE) => profiles.selected = opened
    BY <2>1 DEF Settles
  <2>4. \A s \in UnlockTask : task[s].at = "idle"
    BY <1>2, <2>1
  <2>5. page.unlocked = TRUE => profiles.selected = opened
    BY <1>2, <2>1, <2>3, <2>4
  <2>6. t \in UnlockTask => q.at = "unlock" /\ (q.new = FALSE => q.host = profiles.selected)
    BY <1>2
  <2>7. \A s, u \in Turns : task'[s].at # "idle" /\ task'[u].at # "idle" => s = u
    BY <2>2
  <2>8. \A s \in UnlockTask : /\ task'[s].at = "unlock" /\ task'[s].new = FALSE => task'[s].host = profiles.selected
                              /\ task'[s].at \notin {"me", "data"}
    BY <1>1, <1>2, <2>2, <2>6
  <2> QED  BY <1>1, <2>5, <2>7, <2>8 DEF Settles
<1>4. CASE t \in {"refresh", "change"} /\ UNCHANGED hurried
  <2>1. \A s \in Turns : task'[s] = task[s]
    BY <1>1, <1>2, <1>4
  <2> QED  BY <1>1, <1>2, <1>4, <2>1, SMT DEF Settles
<1> QED  BY <1>2, <1>3, <1>4

LEMMA HearsSettles ==
    ASSUME Calls, Settles, HearWorker
    PROVE  Settles'
<1>0. /\ Turns \subseteq PageTask /\ UnlockTask \subseteq Turns /\ "lock" \in Turns
      /\ (\A s \in Turns : s \notin {"refresh", "change"}) /\ "lock" \notin UnlockTask
      /\ (\A s \in PageTask : s \in UnlockTask \/ s = "lock" \/ s \in {"refresh", "change"})
  BY TaskNames DEF Turns
<1> DEFINE t == outbox[1].task
<1>1. NoTask.at = "idle"
  BY SMT DEF NoTask
<1> SUFFICES ASSUME hurried' = FALSE PROVE Settles'
  BY DEF Settles
<1>2. hurried = FALSE
  BY DEF HearWorker
<1>3. /\ \A s, u \in Turns : task[s].at # "idle" /\ task[u].at # "idle" => s = u
      /\ \A s \in UnlockTask : task[s].at = "unlock" /\ task[s].new = FALSE => task[s].host = profiles.selected
      /\ \A s \in UnlockTask : task[s].at \in {"me", "data"} => task[s].host = opened
      /\ (/\ page.unlocked = TRUE /\ task["lock"].at = "idle"
          /\ \A s \in UnlockTask : task[s].at \in {"me", "data"} => task[s].new = FALSE)
             => profiles.selected = opened
  BY <1>2 DEF Settles
<1>4. ASSUME NEW u \in Turns, task[u].at # "idle", NEW q, task' = [task EXCEPT ![u] = q]
      PROVE  /\ task'[u] = q /\ \A s \in Turns \ {u} : task[s].at = "idle" /\ task'[s].at = "idle"
  <2>1. task'[u] = q /\ \A s \in PageTask \ {u} : task'[s] = task[s]
    BY <1>0, <1>4 DEF Calls, SessionTypeOK
  <2>2. \A s \in Turns \ {u} : task[s].at = "idle"
    BY <1>3, <1>4
  <2>3. Turns \subseteq PageTask
    BY <1>0
  <2>4. \A s \in Turns \ {u} : task'[s].at = "idle"
    BY <2>1, <2>2, <2>3
  <2> QED  BY <2>1, <2>2, <2>4
<1>5. CASE Opens(outbox[1])
  <2> DEFINE q == [at |-> "me", host |-> task[t].host, new |-> task[t].new, started |-> generation + 1]
  <2>1. /\ t \in UnlockTask /\ task[t].at = "unlock" /\ opened' = task[t].host /\ UNCHANGED profiles
        /\ task' = [task EXCEPT ![t] = q]
    BY <1>5, HearOpens
  <2>2. q.at = "me" /\ q.host = task[t].host /\ q.new = task[t].new
    BY SMT
  <2> HIDE DEF q
  <2>3. task'[t] = q /\ \A s \in Turns \ {t} : task'[s].at = "idle"
    <3>1. t \in Turns /\ task[t].at # "idle"
      BY <1>0, <2>1
    <3> QED  BY <1>4, <2>1, <3>1
  <2>4. \A s, u \in Turns : task'[s].at # "idle" /\ task'[u].at # "idle" => s = u
    BY <2>3
  <2>5. \A s \in UnlockTask : /\ task'[s].at # "unlock"
                              /\ task'[s].at \in {"me", "data"} => task'[s].host = opened'
    BY <1>0, <2>1, <2>2, <2>3
  <2>6. task[t].new = FALSE => profiles.selected = opened'
    BY <1>3, <2>1
  <2>7. (\A s \in UnlockTask : task'[s].at \in {"me", "data"} => task'[s].new = FALSE) => task[t].new = FALSE
    BY <2>1, <2>2, <2>3
  <2> QED  BY <2>1, <2>4, <2>5, <2>6, <2>7 DEF Settles
<1>6. CASE outbox[1].what = "lock"
  <2>1. task["lock"].at = "lock" /\ page' = Blank /\ task' = [task EXCEPT !["lock"] = NoTask]
    BY <1>6, HearCloses
  <2>2. \A s \in Turns : task'[s].at = "idle"
    BY <1>0, <1>1, <1>4, <2>1, ZenonT(30)
  <2>3. page'.unlocked = FALSE
    BY <2>1, SMT DEF Blank
  <2> QED  BY <1>0, <2>2, <2>3 DEF Settles
<1>7. CASE ~Opens(outbox[1]) /\ outbox[1].what # "lock"
  <2>1. /\ UNCHANGED opened /\ t \in PageTask /\ task[t].at # "idle" /\ t # "lock"
        /\ ShowsOnly(outbox[1], page')
        /\ \/ Ends(t) /\ (Selects(t) \/ (UNCHANGED profiles
                    /\ (t \in UnlockTask => task[t].at = "unlock" \/ task[t].new = FALSE)))
           \/ UNCHANGED profiles /\ task[t].at # "unlock" /\ \E w \in {"me", "data"} : GoesOn(t, w)
    BY <1>7, HearOthers
  <2>2. page'.unlocked = page.unlocked
    BY <2>1 DEF ShowsOnly
  <2>3. CASE t \in {"refresh", "change"}
    <3>1. UNCHANGED profiles
      BY <1>0, <2>1, <2>3 DEF Selects
    <3>2. \A s \in PageTask \ {t} : task'[s] = task[s]
      BY <2>1 DEF Ends, GoesOn, Calls, SessionTypeOK
    <3>3. \A s \in Turns : task'[s] = task[s]
      BY <1>0, <2>3, <3>2
    <3> QED  BY <1>0, <1>2, <2>1, <2>2, <3>1, <3>3, SMT DEF Settles
  <2>4. CASE t \in UnlockTask /\ Ends(t)
    <3>1. \A s \in Turns : task'[s].at = "idle" /\ (s # t => task[s].at = "idle")
      BY <1>0, <1>1, <1>4, <2>1, <2>4 DEF Ends
    <3>2. page.unlocked = TRUE => profiles'.selected = opened
      <4>1. CASE Selects(t)
        <5>1. task[t].host = opened /\ profiles' = [stored |-> profiles.stored \cup {task[t].host}, selected |-> task[t].host]
          BY <1>3, <2>4, <4>1 DEF Selects
        <5> QED  BY <5>1, SMT
      <4>2. CASE ~Selects(t)
        <5>1. UNCHANGED profiles /\ (task[t].at = "unlock" \/ task[t].new = FALSE)
          <6>1. Ends(t) => ~\E w \in {"me", "data"} : GoesOn(t, w)
            <7>1. ASSUME NEW w \in {"me", "data"}, GoesOn(t, w), Ends(t) PROVE FALSE
              <8>1. task'[t].at = "idle"
                BY <1>0, <2>4, <3>1
              <8>2. task'[t] = [task[t] EXCEPT !.at = w]
                BY <2>1, <7>1 DEF GoesOn, Calls, SessionTypeOK
              <8>3. PICK q : q = [task[t] EXCEPT !.at = w]
                OBVIOUS
              <8>4. q.at = w
                BY <2>1, <7>1, <8>3, GoesOnFits, SMT
              <8> QED  BY <8>1, <8>2, <8>3, <8>4
            <7> QED  BY <7>1
          <6> QED  BY <2>1, <2>4, <4>2, <6>1
        <5>2. \A s \in UnlockTask : task[s].at \in {"me", "data"} => task[s].new = FALSE
          BY <1>0, <3>1, <5>1
        <5>3. task["lock"].at = "idle"
          BY <1>0, <2>1, <3>1
        <5> QED  BY <1>3, <5>1, <5>2, <5>3
      <4> QED  BY <4>1, <4>2
    <3> QED  BY <1>0, <2>1, <2>2, <3>1, <3>2 DEF Settles
  <2>5. ASSUME t \in UnlockTask, NEW w \in {"me", "data"}, GoesOn(t, w), UNCHANGED profiles, task[t].at # "unlock"
        PROVE  Settles'
    <3>1. PICK q : q = [task[t] EXCEPT !.at = w]
      OBVIOUS
    <3>2. task[t] \in Unlocking /\ task[t].at \in {"me", "data"}
      <4>1. task[t] \in Unlocking
        BY <1>1, <2>1, <2>5, CallKinds
      <4>2. task[t].at \in {"unlock", "me", "data"}
        BY <4>1, SMT DEF Unlocking
      <4> QED  BY <2>5, <4>1, <4>2
    <3>3. q.at = w /\ q.host = task[t].host /\ q.new = task[t].new
      BY <2>1, <2>5, <3>1, <3>2, GoesOnFits, SMT
    <3>4. task' = [task EXCEPT ![t] = q]
      BY <2>5, <3>1 DEF GoesOn
    <3>5. task'[t] = q /\ \A s \in Turns \ {t} : task[s].at = "idle" /\ task'[s].at = "idle"
      BY <1>0, <1>4, <2>1, <2>5, <3>4
    <3>6. \A s, u \in Turns : task'[s].at # "idle" /\ task'[u].at # "idle" => s = u
      BY <3>5
    <3>7. \A s \in UnlockTask : /\ task'[s].at # "unlock"
                                /\ task'[s].at \in {"me", "data"} => task'[s].host = opened
      BY <1>0, <1>3, <2>5, <3>2, <3>3, <3>5
    <3>8. page.unlocked = TRUE /\ task'[t].new = FALSE => profiles.selected = opened
      <4>1. task["lock"].at = "idle"
        BY <1>0, <2>1, <3>5
      <4>2. task'[t].new = FALSE => \A s \in UnlockTask : task[s].at \in {"me", "data"} => task[s].new = FALSE
        BY <1>0, <3>3, <3>5
      <4> QED  BY <1>3, <4>1, <4>2
    <3>9. task'[t].at \in {"me", "data"}
      BY <2>5, <3>3, <3>5
    <3> QED  BY <2>1, <2>2, <2>5, <3>6, <3>7, <3>8, <3>9 DEF Settles
  <2> QED  BY <1>0, <2>1, <2>3, <2>4, <2>5
<1> QED  BY <1>5, <1>6, <1>7

LEMMA DeletesSettle ==
    ASSUME Calls, NEW h \in AdminHost, DeleteOther(h)
    PROVE  /\ UNCHANGED <<wasm, inbox, wire, outbox, generation, page, task, opened, hurried>>
           /\ profiles' \in [stored : SUBSET AdminHost, selected : Host]
           /\ profiles'.selected = profiles.selected
<1>1. profiles.selected # h /\ profiles' \in Without(h)
  BY DEF DeleteOther
<1>2. profiles'.selected = profiles.selected
  BY <1>1 DEF Without
<1> QED  BY <1>1, <1>2, WithoutTyped DEF DeleteOther

LEMMA SessionStarts ==
    SessionInit => SessionInv
<1> SUFFICES ASSUME SessionInit PROVE SessionInv
  OBVIOUS
<1>1. NoTask.at = "idle" /\ Blank \in Page /\ Blank.unlocked = FALSE /\ Blank.me = NoHost /\ Blank.data = NoHost
  BY SMT DEF NoTask, Blank, Page, Host
<1>2. \A t \in PageTask : task[t] = NoTask
  BY DEF SessionInit
<1>3. inbox \in Seq(Message) /\ outbox \in Seq(Reply) /\ DOMAIN inbox = {} /\ DOMAIN outbox = {} /\ wire = {}
  BY SMT DEF SessionInit
<1>4. SessionTypeOK
  <2>1. profiles \in [stored : SUBSET AdminHost, selected : Host] /\ NoHost \in Host /\ generation \in Nat
    BY SMT DEF SessionInit, Host
  <2> QED  BY <1>1, <1>2, <1>3, <2>1, TaskNames DEF SessionInit, SessionTypeOK, Page
<1>5. Matched /\ Sole
  BY <1>3 DEF Matched, Sole
<1>6. Opening = {} /\ Closes = {}
  BY <1>3 DEF Opening, Closes
<1>7. Worker /\ Shows
  BY <1>1, <1>6 DEF Worker, Shows, SessionInit
<1>8. Fetched
  BY <1>1, <1>2, <1>3 DEF Fetched, Begun, InOrder, Asked, Answered
<1>9. Settles
  <2>1. \A s \in Turns : task[s].at = "idle"
    BY <1>1, <1>2, TaskNames DEF Turns
  <2> QED  BY <1>1, <2>1 DEF Settles, Turns, SessionInit
<1> QED  BY <1>4, <1>5, <1>7, <1>8, <1>9 DEF SessionInv, Calls

LEMMA SessionSteps ==
    SessionInv /\ [SessionNext]_sessionVars => SessionInv'
<1> SUFFICES ASSUME SessionInv, [SessionNext]_sessionVars PROVE SessionInv'
  OBVIOUS
<1>0. Seen /\ Calls /\ Settles /\ generation \in Nat
  BY PageTyped DEF SessionInv, Seen
<1>1. ASSUME NEW t \in UnlockTask, NEW h \in AdminHost, NEW new \in BOOLEAN, PressUnlock(t, h, new)
      PROVE  SessionInv'
  <2>1. PICK q : q = [at |-> "unlock", host |-> h, new |-> new, started |-> generation]
    OBVIOUS
  <2>2. q.at = "unlock" /\ q.host = h /\ q.new = new
    BY <2>1, SMT
  <2>3. Begins(t, q, h) /\ UNCHANGED generation /\ (new = FALSE => h = profiles.selected)
    BY <1>0, <1>1, <2>1, UnlockBegins
  <2>4. hurried' = (hurried \/ Turning)
    BY <1>1 DEF PressUnlock
  <2>5. Seen'
    BY <1>0, <2>2, <2>3, BeginsSeen
  <2>6. Settles'
    BY <1>0, <2>2, <2>3, <2>4, BeginsSettles
  <2> QED  BY <2>5, <2>6 DEF SessionInv, Seen
<1>2. CASE PressLock
  <2>1. PICK then : /\ Begins("lock", [at |-> "lock", then |-> then, started |-> generation + 1], NoHost)
                    /\ generation' = generation + 1 /\ hurried' = (hurried \/ Turning)
    BY <1>0, <1>2, LockBegins
  <2>2. PICK q : q = [at |-> "lock", then |-> then, started |-> generation + 1]
    OBVIOUS
  <2>3. Begins("lock", q, NoHost) /\ q.at = "lock"
    BY <2>1, <2>2
  <2>4. Seen'
    BY <1>0, <2>1, <2>3, BeginsSeen
  <2>5. Settles'
    BY <1>0, <2>1, <2>3, BeginsSettles
  <2> QED  BY <2>4, <2>5 DEF SessionInv, Seen
<1>3. CASE PressRefresh \/ PressChange
  <2>1. PICK t \in {"refresh", "change"}, w \in {"me", "change"} :
               /\ Begins(t, [at |-> w, started |-> generation], NoHost)
               /\ UNCHANGED <<generation, hurried>>
    BY <1>0, <1>3, AskBegins
  <2>2. PICK q : q = [at |-> w, started |-> generation]
    OBVIOUS
  <2>3. Begins(t, q, NoHost) /\ q.at = w
    BY <2>1, <2>2
  <2>4. q.at # "lock"
    BY <2>3
  <2>5. Seen'
    BY <1>0, <2>1, <2>3, <2>4, BeginsSeen
  <2>6. Settles'
    BY <1>0, <2>1, <2>3, BeginsSettles
  <2> QED  BY <2>5, <2>6 DEF SessionInv, Seen
<1>4. ASSUME NEW h \in AdminHost, DeleteOther(h)
      PROVE  SessionInv'
  <2>1. /\ UNCHANGED <<wasm, inbox, wire, outbox, generation, page, task, opened, hurried>>
        /\ profiles' \in [stored : SUBSET AdminHost, selected : Host]
        /\ profiles'.selected = profiles.selected
    BY <1>0, <1>4, DeletesSettle
  <2>2. Calls'
    <3>1. SessionTypeOK'
      BY <1>0, <2>1 DEF Calls, SessionTypeOK
    <3>2. Matched' /\ Sole'
      BY <1>0, <2>1 DEF Calls, Matched, Sole
    <3> QED  BY <3>1, <3>2 DEF Calls
  <2>3. UNCHANGED <<Opening, Closes, View>>
    BY <2>1 DEF Opening, Closes, View, Opens
  <2>4. Worker' /\ Shows' /\ Begun' /\ InOrder' /\ Asked' /\ Answered'
    BY <1>0, <2>1, <2>3 DEF Seen, Worker, Shows, Fetched, Begun, InOrder, Asked, Answered, Current
  <2>5. Settles'
    BY <1>0, <2>1 DEF Settles
  <2> QED  BY <2>2, <2>4, <2>5 DEF SessionInv, Fetched
<1>5. CASE HandleMessage
  <2>1. Seen' /\ UNCHANGED <<generation, page, profiles, task, opened, hurried>>
    BY <1>0, <1>5, HandleSeen DEF HandleMessage, pageVars
  <2>2. Settles'
    BY <1>0, <2>1 DEF Settles
  <2> QED  BY <2>1, <2>2 DEF SessionInv, Seen
<1>6. CASE HearWorker
  <2>1. Seen'
    BY <1>0, <1>6, OpensSeen, ClosesSeen, OthersSeen
  <2>2. Settles'
    BY <1>0, <1>6, HearsSettles
  <2> QED  BY <2>1, <2>2 DEF SessionInv, Seen
<1>7. ASSUME NEW m \in wire, HostAnswers(m)
      PROVE  SessionInv'
  <2>1. Seen' /\ UNCHANGED <<generation, page, profiles, task, opened, hurried>>
    BY <1>0, <1>7, HostSeen DEF HostAnswers, pageVars
  <2>2. Settles'
    BY <1>0, <2>1 DEF Settles
  <2> QED  BY <2>1, <2>2 DEF SessionInv, Seen
<1>8. CASE UNCHANGED sessionVars
  <2>1. UNCHANGED <<wasm, inbox, wire, outbox, generation, page, profiles, task, opened, hurried>>
    BY <1>8 DEF sessionVars
  <2>2. Calls' /\ Settles'
    <3>1. SessionTypeOK' /\ Settles'
      BY <1>0, <2>1 DEF Calls, SessionTypeOK, Settles
    <3>2. Matched' /\ Sole'
      BY <1>0, <2>1 DEF Calls, Matched, Sole
    <3> QED  BY <3>1, <3>2 DEF Calls
  <2>3. UNCHANGED <<Opening, Closes, View>>
    BY <2>1 DEF Opening, Closes, View, Opens
  <2>4. Worker' /\ Shows' /\ Begun' /\ InOrder' /\ Asked' /\ Answered'
    BY <1>0, <2>1, <2>3 DEF Seen, Worker, Shows, Fetched, Begun, InOrder, Asked, Answered, Current
  <2> QED  BY <2>2, <2>4 DEF SessionInv, Fetched
<1> QED  BY <1>1, <1>2, <1>3, <1>4, <1>5, <1>6, <1>7, <1>8 DEF SessionNext

LEMMA SessionHolds ==
    SessionInv => ShownIsOpened
<1> SUFFICES ASSUME SessionInv PROVE ShownIsOpened
  OBVIOUS
<1>1. {page.me, page.data} \subseteq {NoHost, View}
  BY DEF SessionInv, Shows
<1>2. ASSUME page.unlocked, ~hurried, \A t \in PageTask : task[t].at = "idle"
      PROVE  profiles.selected = opened
  <2>1. page.unlocked = TRUE /\ hurried = FALSE
    <3>1. page.unlocked \in BOOLEAN
      BY SMT DEF SessionInv, Calls, SessionTypeOK
    <3> QED  BY <1>2, <3>1 DEF SessionInv, Calls, SessionTypeOK
  <2>2. task["lock"].at = "idle" /\ \A t \in UnlockTask : task[t].at = "idle"
    BY <1>2, TaskNames
  <2> QED  BY <2>1, <2>2 DEF SessionInv, Settles
<1> QED  BY <1>1, <1>2 DEF ShownIsOpened, View

\* For any hosts and any number of unlocks in progress, what the admin page
\* shows was fetched by the session it was last told is open, and with no call
\* in progress that session is the selected profile's, unless two locks or
\* unlocks overlapped (useSession.ts).
THEOREM ShownHostIsOpened == SessionSpec => []ShownIsOpened
<1>1. SessionInit => SessionInv
  BY SessionStarts
<1>2. SessionInv /\ [SessionNext]_sessionVars => SessionInv'
  BY SessionSteps
<1>3. SessionInv => ShownIsOpened
  BY SessionHolds
<1> QED  BY <1>1, <1>2, <1>3, PTL DEF SessionSpec

=============================================================================
