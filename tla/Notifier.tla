------------------------------ MODULE Notifier ------------------------------
(***************************************************************************)
(* The notifier (packages/notifier): passes over the accounts that have a  *)
(* plan, started by a timer and free to overlap.  A pass captures the time *)
(* once, reads the accounts page by page, and for every account sends what *)
(* is due on two channels: db-api's log row first, then the message.  Past *)
(* the retention window it asks the proxy to purge.                        *)
(***************************************************************************)
EXTENDS Lifecycle, Sequences

CONSTANTS
    Pass,           \* passes that may run at once
    Channel,        \* "nostr", "email"
    PageSize,
    WarningDays,    \* notify.expiryWarningDays
    QuotaPercent,   \* notify.quotaWarningPercent
    PurgeEnabled,
    MaxFaults       \* bound on failures of db-api, of sending, and crashes

ASSUME NotifierAssumption == PageSize \in Nat \ {0}

VARIABLES
    log,     \* notification_log: unique (npub, kind, ref, channel)
    pass,    \* the passes
    sent,    \* history: messages handed to a relay or the mail bridge
    twice,   \* history: those handed over more than once
    faults   \* failures so far

notifierVars == <<log, pass, sent, twice, faults>>

NoPass == [at |-> "idle", now |-> NULL, page |-> NULL, last |-> TRUE,
           items |-> <<>>, cur |-> NULL]

NotifierInit ==
    /\ AccountInit
    /\ log = {} /\ sent = {} /\ twice = {} /\ faults = 0
    /\ pass = [p \in Pass |-> NoPass]

-----------------------------------------------------------------------------
\* daysUntil and dueNotifications: what an account is due at a time.
Percent(u) == (100 * u.used) \div u.plan.bytes
Due(u, t) ==
    LET status == Status(u.plan, u.used, t) IN
      {d \in {<<"expiry_warning", w>> : w \in WarningDays}
          : status # "CLOSED" /\ u.plan.expires - t \in 0..d[2]}
      \cup {d \in {<<"quota_warning", q>> : q \in QuotaPercent}
          : status # "CLOSED" /\ u.plan.bytes > 0 /\ Percent(u) >= d[2]}
      \cup {d \in {<<k, 0>> : k \in {"GRACE", "WRITE_BLOCKED", "READ_BLOCKED"}}
          : d[1] = status}
Keys(u, due) == [npub : {u.npub}, kind : due, ref : {u.plan.expires}, channel : Channel]

\* GET /users/attention: by expiry, equal ones alike on every read.
Attention == {n \in Npub : user[n].expires # NULL}
Order ==
    CHOOSE s \in [1..Cardinality(Attention) -> Attention] :
        \A i, j \in DOMAIN s : i < j => s[i] # s[j] /\ user[s[i]].expires <= user[s[j]].expires
\* A due purge of an account that has something stored.
Purgeable(u, t) ==
    PurgeEnabled /\ u.used > 0 /\ Status(u.plan, u.used, t) = "CLOSED"

\* A page as the pass that began at t will work through it: what each account
\* is due follows from the row read and from t.
Item(n, t) ==
    LET u == [npub |-> n, plan |-> user[n], used |-> Used(n)] IN
      [npub |-> n, ref |-> user[n].expires, todo |-> Keys(u, Due(u, t)), purge |-> Purgeable(u, t)]
HasWork(item) == item.todo # {} \/ item.purge
Page(s, k, t) ==
    LET busy(n) == HasWork(Item(n, t))
        on == SelectSeq(SubSeq(s, (k - 1) * PageSize + 1, Min({k * PageSize, Len(s)})), busy)
    IN [i \in 1..Len(on) |-> Item(on[i], t)]

\* What a pass awaits next: a log row for the account at hand, its purge, the
\* next account, the next page, or nothing more.
Continue(q) ==
    CASE q.items = <<>> /\ q.last -> NoPass
      [] q.items = <<>> /\ ~q.last -> [q EXCEPT !.at = "list", !.page = @ + 1, !.cur = NULL]
      [] q.items # <<>> /\ Head(q.items).todo # {} -> [q EXCEPT !.at = "deliver", !.cur = NULL]
      [] OTHER -> [q EXCEPT !.at = "purge", !.cur = NULL]
Rest(q) == IF HasWork(Head(q.items)) THEN q ELSE [q EXCEPT !.items = Tail(@)]

Set(p, x) == pass' = [pass EXCEPT ![p] = x]
Fault == faults < MaxFaults /\ faults' = faults + 1

-----------------------------------------------------------------------------
(* runOnce.                                                                *)

PassStart(p) ==
    /\ pass[p].at = "idle"
    /\ Set(p, [NoPass EXCEPT !.at = "list", !.now = now, !.page = 1])
    /\ UNCHANGED <<accountVars, log, sent, twice, faults>>

\* Mutant: the last account of the list is taken for the end.
ListStops(p) ==
    /\ pass[p].at = "list"
    /\ LET q == pass[p] IN
         \E s \in {Order} : \E items \in {Page(s, q.page, q.now)} :
           Set(p, Continue([q EXCEPT !.items = items,
                              !.last = q.page * PageSize + 1 >= Cardinality(Attention)]))
    /\ UNCHANGED <<accountVars, log, sent, twice, faults>>

List(p) ==
    /\ pass[p].at = "list"
    /\ LET q == pass[p] IN
         \E s \in {Order} : \E items \in {Page(s, q.page, q.now)} :
           Set(p, Continue([q EXCEPT !.items = items,
                              !.last = q.page * PageSize >= Cardinality(Attention)]))
    /\ UNCHANGED <<accountVars, log, sent, twice, faults>>

\* Mutant: a duplicate log row does not stop the message.
DeliverAgain(p) ==
    /\ pass[p].at = "deliver"
    /\ \E key \in {CHOOSE k \in Head(pass[p].items).todo : TRUE} :
       \E q \in {Rest([pass[p] EXCEPT !.items[1].todo = @ \ {key}])} :
         /\ log' = log \cup {key} /\ Set(p, [q EXCEPT !.at = "send", !.cur = key])
         /\ UNCHANGED faults
    /\ UNCHANGED <<accountVars, sent, twice>>

\* deliver: db-api logs the notification for a channel; a duplicate is skipped,
\* and after a failure, which is caught, the message is still due.
Deliver(p) ==
    /\ pass[p].at = "deliver"
    /\ \E key \in {CHOOSE k \in Head(pass[p].items).todo : TRUE} :
       \E q \in {Rest([pass[p] EXCEPT !.items[1].todo = @ \ {key}])} :
         \/ /\ key \notin log
            /\ log' = log \cup {key} /\ Set(p, [q EXCEPT !.at = "send", !.cur = key])
            /\ UNCHANGED faults
         \/ /\ key \in log
            /\ Set(p, Continue(q)) /\ UNCHANGED <<log, faults>>
         \/ /\ Fault
            /\ Set(p, Continue(q)) /\ UNCHANGED log
    /\ UNCHANGED <<accountVars, sent, twice>>

\* The message goes out, or the relay, the mail bridge or the address fails it:
\* the error is caught, the log row stays.
Send(p) ==
    /\ pass[p].at = "send"
    /\ Set(p, Continue(pass[p]))
    /\ LET key == pass[p].cur IN
         \/ /\ sent' = sent \cup {key}
            /\ twice' = IF key \in sent THEN twice \cup {key} ELSE twice
            /\ UNCHANGED faults
         \/ /\ Fault
            /\ UNCHANGED <<sent, twice>>
    /\ UNCHANGED <<accountVars, log>>

\* verifyNip98 on POST /internal/purge/:npub: the notifier signs the hash of the
\* body {}, the route parses no body and compares with the hash of nothing.
SignedPayload == "{}"
ReceivedPayload == ""
PurgedKeys(item) == [npub : {item.npub}, kind : {<<"purged", 0>>}, ref : {item.ref},
                     channel : Channel]
PurgeAuthorized == SignedPayload = ReceivedPayload

\* Past the retention window the account's blobs are purged, and "purged" is
\* due; a refused call is caught and the pass goes on.
Purge(p) ==
    /\ pass[p].at = "purge"
    /\ LET item == Head(pass[p].items)
           done == [item EXCEPT !.purge = FALSE, !.todo =
                      IF PurgeAuthorized THEN PurgedKeys(item) ELSE {}] IN
         /\ rows' = IF PurgeAuthorized THEN {b \in rows : b[2] # item.npub} ELSE rows
         /\ \E q \in {Rest([pass[p] EXCEPT !.items[1] = done])} : Set(p, Continue(q))
    /\ UNCHANGED <<now, user, log, sent, twice, faults>>

\* The process dies and starts over; what was logged and not sent stays logged.
Crash ==
    /\ Fault
    /\ \E p \in Pass : pass[p].at # "idle"
    /\ pass' = [p \in Pass |-> NoPass]
    /\ UNCHANGED <<accountVars, log, sent, twice>>

-----------------------------------------------------------------------------
(* The accounts as the notifier meets them: plans are bought, blobs come   *)
(* while the plan allows it and go.                                        *)

Store(n, h) ==
    /\ CanUpload(user[n], Used(n), now) /\ Used(n) < user[n].bytes
    /\ rows' = rows \cup {<<h, n>>}
    /\ UNCHANGED <<now, user>>

Remove(n, h) ==
    /\ <<h, n>> \in rows
    /\ rows' = rows \ {<<h, n>>}
    /\ UNCHANGED <<now, user>>

Accounts ==
    \/ Tick
    \/ \E n \in Npub, bytes \in Allowance : Purchase(n, bytes)
    \/ \E n \in Npub, h \in Hash : Store(n, h) \/ Remove(n, h)

Run(p) == List(p) \/ Deliver(p) \/ Send(p) \/ Purge(p)

NotifierNext ==
    \/ \E p \in Pass : PassStart(p) \/ Run(p)
    \/ Accounts /\ UNCHANGED notifierVars
    \/ Crash

\* The timer keeps starting passes, and a pass that runs goes on.
NotifierFairness ==
    /\ \A p \in Pass : WF_<<accountVars, notifierVars>>(Run(p))
    /\ WF_<<accountVars, notifierVars>>(\E p \in Pass : PassStart(p))

NotifierSpec ==
    /\ NotifierInit
    /\ [][NotifierNext]_<<accountVars, notifierVars>>
    /\ NotifierFairness

-----------------------------------------------------------------------------
(* Properties.                                                             *)

\* However passes overlap, fail and restart, no message goes out twice for the
\* same plan, stage and channel (logNotification before send).
SentOnce == twice = {}

\* Accounts that stay in a stage have that stage's notification logged on every
\* channel: none is passed over for good by paging through a list that moves,
\* by a pass that works on an old page, or by one that dies (runOnce).
Noticed(n) ==
    LET stage == Status(user[n], Used(n), now) IN
      stage \in {"GRACE", "WRITE_BLOCKED", "READ_BLOCKED"} =>
        \A c \in Channel : [npub |-> n, kind |-> <<stage, 0>>,
                             ref |-> user[n].expires, channel |-> c] \in log
StagesNoticed == []<>(\A n \in Npub : Noticed(n))

\* What runOnce's comment promises of retention: an account past its window
\* with blobs loses them, unless a plan is bought.
PurgedAfterRetention ==
    \A n \in Npub :
        Status(user[n], Used(n), now) = "CLOSED" /\ Used(n) > 0
            ~> Used(n) = 0 \/ Status(user[n], Used(n), now) # "CLOSED"
=============================================================================
