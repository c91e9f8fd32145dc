---------------------------- MODULE AdminSession ----------------------------
(***************************************************************************)
(* The admin app's session: the page (admin-app/src/hooks/useSession.ts,   *)
(* useProfiles.ts and App.tsx) and the crypto worker that holds the        *)
(* decrypted key (platform/worker.ts behind platform/web.ts).  The two     *)
(* exchange messages in order; the worker's requests to the host end in    *)
(* any order, so an answer may come back to a page that has since been     *)
(* locked or unlocked for another host.                                    *)
(*                                                                         *)
(* A profile is its host.  What the page shows is the host whose session   *)
(* fetched it: `me`, and the roster, members and storages as one value.    *)
(***************************************************************************)
EXTENDS Integers, Sequences

CONSTANTS
    AdminHost,       \* hosts a profile may be for
    UnlockTask,      \* bound: unlocks that may be in progress at a time
    MaxGeneration    \* bound: locks and unlocks

\* An unlock is told apart from the other calls of the page.
ASSUME SessionAssumption == UnlockTask \cap {"lock", "refresh", "change"} = {}

NoHost == "none"
NoTask == [at |-> "idle"]
PageTask == UnlockTask \cup {"lock", "refresh", "change"}

VARIABLES
    wasm,         \* the worker's session
    inbox,        \* page to worker, in order
    wire,         \* requests the worker has sent to a host
    outbox,       \* worker to page, in order
    generation,   \* generation.current
    page,         \* unlocked, me, data, busy
    profiles,     \* the stored profiles, and the selected one
    task,         \* the page's asynchronous calls in progress
    opened,       \* history: the host of the last unlock the page was told of
    hurried       \* history: two locks or unlocks were in progress together

sessionVars == <<wasm, inbox, wire, outbox, generation, page, profiles, task,
                 opened, hurried>>

Blank == [unlocked |-> FALSE, me |-> NoHost, data |-> NoHost, busy |-> FALSE]

SessionInit ==
    /\ wasm = NoHost
    /\ inbox = <<>> /\ outbox = <<>> /\ wire = {}
    /\ generation = 0
    /\ page = Blank
    /\ profiles = [stored |-> {}, selected |-> NoHost]
    /\ task = [t \in PageTask |-> NoTask]
    /\ opened = NoHost
    /\ hurried = FALSE

Post(t, what, h) == inbox' = Append(inbox, [task |-> t, what |-> what, host |-> h])

Turning == \E t \in UnlockTask \cup {"lock"} : task[t].at # "idle"

(***************************************************************************)
(* The page: what the operator presses                                     *)
(***************************************************************************)

\* unlockSelected, or saveProfile with a new profile: the buttons are
\* disabled while the page is busy.
PressUnlock(t, h, new) ==
    /\ ~page.busy
    /\ task[t].at = "idle" /\ generation < MaxGeneration
    /\ IF new THEN h \notin profiles.stored
       ELSE h = profiles.selected /\ ~page.unlocked
    /\ page' = [page EXCEPT !.busy = TRUE]
    /\ task' = [task EXCEPT ![t] = [at |-> "unlock", host |-> h, new |-> new,
                                    started |-> generation]]
    /\ hurried' = (hurried \/ Turning)
    /\ Post(t, "unlock", h)
    /\ UNCHANGED <<wasm, wire, outbox, generation, profiles, opened>>

\* lock: the generation moves on before the worker is told.
Locking(then) ==
    /\ task["lock"].at = "idle" /\ generation < MaxGeneration
    /\ generation' = generation + 1
    /\ task' = [task EXCEPT !["lock"] = [at |-> "lock", then |-> then,
                                         started |-> generation + 1]]
    /\ hurried' = (hurried \/ Turning)
    /\ Post("lock", "lock", NoHost)
    /\ UNCHANGED <<wasm, wire, outbox, page, profiles, opened>>

\* The Lock button is there whenever the page is unlocked, busy or not;
\* choosing another profile, or deleting the selected one, locks first.
PressLock ==
    \/ page.unlocked /\ Locking([do |-> "stay", host |-> NoHost])
    \/ \E h \in profiles.stored :
           /\ ~page.busy
           /\ \/ Locking([do |-> "select", host |-> h])
              \/ h = profiles.selected /\ Locking([do |-> "remove", host |-> h])

PressRefresh ==
    /\ page.unlocked /\ ~page.busy /\ task["refresh"].at = "idle"
    /\ page' = [page EXCEPT !.busy = TRUE]
    /\ task' = [task EXCEPT !["refresh"] = [at |-> "me", started |-> generation]]
    /\ Post("refresh", "me", NoHost)
    /\ UNCHANGED <<wasm, wire, outbox, generation, profiles, opened, hurried>>

\* mutate: a change to a member or a storage, then a silent refresh.
PressChange ==
    /\ page.unlocked /\ page.me # NoHost
    /\ ~page.busy /\ task["change"].at = "idle"
    /\ page' = [page EXCEPT !.busy = TRUE]
    /\ task' = [task EXCEPT !["change"] = [at |-> "change", started |-> generation]]
    /\ Post("change", "change", NoHost)
    /\ UNCHANGED <<wasm, wire, outbox, generation, profiles, opened, hurried>>

\* remove: the profiles without one; if it was the selected one, the first
\* that is left is selected.
Without(h) ==
    LET rest == profiles.stored \ {h}
    IN  {p \in [stored : {rest}, selected : rest \cup {profiles.selected, NoHost}] :
            IF profiles.selected # h THEN p.selected = profiles.selected
            ELSE IF rest = {} THEN p.selected = NoHost ELSE p.selected \in rest}

DeleteOther(h) ==
    /\ ~page.busy
    /\ h \in profiles.stored \ {profiles.selected}
    /\ profiles' \in Without(h)
    /\ UNCHANGED <<wasm, inbox, wire, outbox, generation, page, task, opened, hurried>>

(***************************************************************************)
(* The worker                                                              *)
(***************************************************************************)

pageVars == <<generation, page, profiles, task, opened, hurried>>

Answer(m, ok, h) ==
    outbox' = Append(outbox, [task |-> m.task, what |-> m.what, ok |-> ok, host |-> h])

\* unlockHost replaces the session only once the new one is open; lockHost
\* drops it; anything else needs one, and goes to its host.
HandleMessage ==
    /\ inbox # <<>>
    /\ inbox' = Tail(inbox)
    /\ LET m == Head(inbox) IN
       \/ /\ m.what = "unlock"
          /\ \E ok \in BOOLEAN : /\ wasm' = IF ok THEN m.host ELSE wasm
                                 /\ Answer(m, ok, m.host)
          /\ UNCHANGED wire
       \/ /\ m.what = "lock"
          /\ wasm' = NoHost
          /\ Answer(m, TRUE, NoHost)
          /\ UNCHANGED wire
       \/ /\ m.what \in {"me", "data", "change"}
          /\ IF wasm = NoHost
             THEN Answer(m, FALSE, NoHost) /\ UNCHANGED wire
             ELSE /\ wire' = wire \cup {[m EXCEPT !.host = wasm]}
                  /\ UNCHANGED outbox
          /\ UNCHANGED wasm
    /\ UNCHANGED pageVars

\* The host answers, refuses, or the 20 s timeout ends the request.
HostAnswers(m) ==
    /\ wire' = wire \ {m}
    /\ \E ok \in BOOLEAN : Answer(m, ok, m.host)
    /\ UNCHANGED <<wasm, inbox, pageVars>>

(***************************************************************************)
(* The page: an answer arrives                                             *)
(***************************************************************************)

\* A refresh or a change that outlived its session, taken for current.
StillAlways(t) == TRUE

\* generation.current === started
Still(t) == generation = task[t].started

\* A call ends.  unlock clears busy whatever happened since; the others only
\* if their session is still the one.  An unlock that got its session stores
\* and selects a new profile, whenever that is.
Ended(t, shown) ==
    /\ task' = [task EXCEPT ![t] = NoTask]
    /\ page' = IF t \in UnlockTask \/ Still(t) THEN [shown EXCEPT !.busy = FALSE] ELSE shown
    /\ profiles' = IF t \in UnlockTask /\ task[t].at # "unlock" /\ task[t].new
                   THEN [stored |-> profiles.stored \cup {task[t].host},
                         selected |-> task[t].host]
                   ELSE profiles
    /\ UNCHANGED inbox

Continue(t, what, shown) ==
    /\ task' = [task EXCEPT ![t].at = what]
    /\ page' = shown
    /\ Post(t, what, NoHost)
    /\ UNCHANGED profiles

HearUnlock(a) ==
    /\ a.what = "unlock"
    /\ IF a.ok
       THEN /\ generation' = generation + 1
            /\ page' = [Blank EXCEPT !.unlocked = TRUE, !.busy = page.busy]
            /\ opened' = a.host
            /\ task' = [task EXCEPT ![a.task].at = "me",
                                    ![a.task].started = generation + 1]
            /\ Post(a.task, "me", NoHost)
            /\ UNCHANGED profiles
       ELSE Ended(a.task, page) /\ UNCHANGED <<generation, opened>>

HearLock(a) ==
    /\ a.what = "lock"
    /\ page' = Blank
    /\ task' = [task EXCEPT !["lock"] = NoTask]
    /\ LET then == task["lock"].then IN
       profiles' \in CASE then.do = "stay" -> {profiles}
                       [] then.do = "select" ->
                            {IF then.host \in profiles.stored
                             THEN [profiles EXCEPT !.selected = then.host]
                             ELSE profiles}
                       [] then.do = "remove" -> Without(then.host)
    /\ UNCHANGED <<inbox, generation, opened>>

\* refresh: me first; an operator without a role gets nothing else.
HearMe(a) ==
    /\ a.what = "me"
    /\ IF Still(a.task) /\ a.ok
       THEN \/ Ended(a.task, [page EXCEPT !.me = a.host, !.data = NoHost])
            \/ Continue(a.task, "data", [page EXCEPT !.me = a.host])
       ELSE Ended(a.task, page)
    /\ UNCHANGED <<generation, opened>>

HearData(a) ==
    /\ a.what = "data"
    /\ Ended(a.task, IF Still(a.task) /\ a.ok THEN [page EXCEPT !.data = a.host]
                     ELSE page)
    /\ UNCHANGED <<generation, opened>>

HearChange(a) ==
    /\ a.what = "change"
    /\ IF Still(a.task) /\ a.ok THEN Continue(a.task, "me", page)
       ELSE Ended(a.task, page)
    /\ UNCHANGED <<generation, opened>>

HearWorker ==
    /\ outbox # <<>>
    /\ outbox' = Tail(outbox)
    /\ LET a == Head(outbox) IN
       HearUnlock(a) \/ HearLock(a) \/ HearMe(a) \/ HearData(a) \/ HearChange(a)
    /\ UNCHANGED <<wasm, wire, hurried>>

SessionNext ==
    \/ \E t \in UnlockTask, h \in AdminHost, new \in BOOLEAN : PressUnlock(t, h, new)
    \/ \E h \in AdminHost : DeleteOther(h)
    \/ PressLock \/ PressRefresh \/ PressChange
    \/ HandleMessage \/ HearWorker
    \/ \E m \in wire : HostAnswers(m)

SessionSpec == SessionInit /\ [][SessionNext]_sessionVars

-----------------------------------------------------------------------------

\* What the page shows was fetched by the session it was last told is open,
\* however late the answers of an earlier one are, and a locked page shows
\* nothing (useSession.ts, the generation checks).  With no call in progress
\* the unlocked host is also the selected profile, unless two locks or unlocks
\* overlapped: each then selects or removes its own profile when it ends.
ShownIsOpened ==
    /\ {page.me, page.data} \subseteq {NoHost, IF page.unlocked THEN opened ELSE NoHost}
    /\ (page.unlocked /\ ~hurried /\ \A t \in PageTask : task[t].at = "idle")
           => profiles.selected = opened
=============================================================================
