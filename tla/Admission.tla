----------------------------- MODULE Admission -----------------------------
(***************************************************************************)
(* Admission to a storage node: what HEAD /upload and HEAD /media tell a   *)
(* client beforehand (routes/upload.ts, routes/media.ts), and what the PUT *)
(* with the same token and the same headers then gets.  The two handlers   *)
(* are separate code, and the clock and the worker pool move between them. *)
(***************************************************************************)
EXTENDS Integers

CONSTANTS
    NodeConf,    \* configurations: route, enabled, requireAuth, inRule (that is,
                 \* requirePubkeyInRule) and rules, a set of <<pubkeys, pattern>>
    Ask,         \* requests: token, type, length and sha (see NoToken, NoHeader,
                 \* NoLength)
    SizeLimit,   \* maxSize
    ClockSkew,   \* seconds that created_at may be ahead
    LastSecond   \* bound on the clock

\* A rule lists pubkeys; times are whole seconds.
ASSUME AdmissionAssumption ==
    /\ \A c \in NodeConf : /\ c.route \in {"upload", "media"}
                          /\ \A rule \in c.rules : "none" \notin rule[1]
    /\ \A a \in Ask : a.token.created \in Int /\ a.token.expiration \in Int
    /\ ClockSkew \in Int

VARIABLES
    nodeConf,    \* the node's configuration
    asked,       \* token and headers of the client
    nodeTime,    \* the node's clock
    poolFull,    \* are all workers occupied?
    told,        \* answer to HEAD
    put          \* answer to PUT, which ends the exchange

admissionVars == <<nodeConf, asked, nodeTime, poolFull, told, put>>

NoToken == [pubkey |-> "none", t |-> "none", flaw |-> "none", created |-> 0,
            expiration |-> 0, server |-> {}, x |-> {}]
NoHeader == <<"none">>
OctetStream == <<"octet", "application/*", FALSE>>   \* mime, family, has parameters
NoLength == -2
NaL == -1         \* a length that parseInt cannot read, or a negative one
Unanswered == <<0, "">>
Ok == <<200, "">>

AdmissionInit ==
    /\ nodeConf \in NodeConf /\ asked \in Ask
    /\ nodeTime = 0 /\ poolFull = FALSE
    /\ told = Unanswered /\ put = Unanswered

-----------------------------------------------------------------------------
(***************************************************************************)
(* Checks.  Each is the refusals it can give, so that the first check of a *)
(* route that is not empty is its answer.                                  *)
(***************************************************************************)

\* The server tags name this node, under any of the forms of its name.
ExtractHostname(tags) == tags = {} \/ "this" \in tags

\* Everything but the expiry is fixed when the token is signed; created_at may
\* lie ahead of the clock, and the clock catches up.
ParseAuthEvent(t) ==
    IF t.flaw \in {"encoding", "kind"} THEN {<<400, t.flaw>>}
    ELSE IF t.created - nodeTime > ClockSkew THEN {<<400, "future">>}
    ELSE IF t.flaw = "expiration" THEN {<<400, "expiration">>}
    ELSE IF t.expiration < nodeTime THEN {<<401, "expired">>}
    ELSE IF t.flaw = "t" THEN {<<400, "t">>}
    ELSE IF ~ExtractHostname(t.server) THEN {<<401, "server">>}
    ELSE IF t.flaw = "signature" THEN {<<400, "signature">>}
    ELSE {}

\* A token that does not parse is refused on every route, needed or not.
AuthMiddleware ==
    IF asked.token = NoToken THEN {} ELSE ParseAuthEvent(asked.token)

RequireAuth(verb) ==
    CASE asked.token = NoToken -> {<<401, "required">>}
      [] asked.token.t \notin {"none", verb} -> {<<403, "verb">>}
      [] OTHER -> {}

Flag == IF nodeConf.enabled THEN {} ELSE {<<403, "disabled">>}
Auth == IF nodeConf.requireAuth THEN RequireAuth(nodeConf.route) ELSE {}
Pool == IF poolFull THEN {<<503, "busy">>} ELSE {}

\* A type with parameters equals no pattern but may still be of its family.
Matches(type, pattern) ==
    \/ pattern \in {"*", type[2]}
    \/ ~type[3] /\ pattern = type[1]

\* The rule that admits a type for a pubkey ("none" when there is none); with
\* requirePubkeyInRule only a rule that lists the pubkey counts.
RuleGate(type, pubkey) ==
    IF \/ nodeConf.rules = {} /\ ~nodeConf.inRule
       \/ \E rule \in nodeConf.rules :
             /\ IF rule[1] # {} THEN pubkey \in rule[1] ELSE ~nodeConf.inRule
             /\ Matches(type, rule[2])
    THEN {}
    ELSE {IF nodeConf.inRule THEN <<401, "rule">> ELSE <<415, "rule">>}

\* split(";")[0]
Bare(type) == <<type[1], type[2], FALSE>>
TypeOr(default) == IF asked.type = NoHeader THEN default ELSE asked.type

TooLarge == IF asked.length > SizeLimit THEN {<<413, "size">>} ELSE {}
LengthGate ==
    CASE asked.length = NoLength -> {<<411, "length">>}
      [] asked.length = NaL -> {<<400, "length">>}
      [] OTHER -> TooLarge

\* The header must be a digest, and the token's x tags, if any, must list it.
ShaFormat == IF asked.sha = "malformed" THEN {<<400, "sha">>} ELSE {}
RequireXTag ==
    IF nodeConf.requireAuth /\ asked.sha = "x" /\ asked.token.x # {} /\ "x" \notin asked.token.x
    THEN {<<403, "x">>} ELSE {}

FirstRefusal(checks) ==
    IF \A i \in DOMAIN checks : checks[i] = {} THEN Ok
    ELSE LET i == CHOOSE i \in DOMAIN checks :
                     checks[i] # {} /\ \A j \in 1..(i - 1) : checks[j] = {}
         IN CHOOSE a \in checks[i] : TRUE
-----------------------------------------------------------------------------
(***************************************************************************)
(* The two routes.                                                         *)
(***************************************************************************)

\* A preflight that forgets maxSize.
HeadUploadAnySize ==
    FirstRefusal(<<AuthMiddleware, Flag, Auth,
              RuleGate(TypeOr(OctetStream), asked.token.pubkey), Pool>>)

\* The pubkey of whatever token came, required or not.
HeadUpload ==
    FirstRefusal(<<AuthMiddleware, Flag, Auth, LengthGate,
              RuleGate(TypeOr(OctetStream), asked.token.pubkey), Pool>>)

HeadMedia ==
    FirstRefusal(<<AuthMiddleware, Flag, Auth, Pool, TooLarge,
              IF asked.type = NoHeader THEN {}
              ELSE RuleGate(Bare(asked.type), asked.token.pubkey)>>)

\* Without requireAuth the handler of PUT /upload does not look at the token.
PutUpload ==
    FirstRefusal(<<AuthMiddleware, Flag, Auth, LengthGate,
              RuleGate(Bare(TypeOr(OctetStream)),
                       IF nodeConf.requireAuth THEN asked.token.pubkey ELSE "none"),
              ShaFormat, RequireXTag, Pool>>)

PutMedia ==
    FirstRefusal(<<AuthMiddleware, Flag, Auth, LengthGate,
              RuleGate(Bare(TypeOr(OctetStream)), asked.token.pubkey),
              ShaFormat, Pool>>)

-----------------------------------------------------------------------------
AskHead ==
    /\ told = Unanswered /\ put = Unanswered
    /\ told' = IF nodeConf.route = "upload" THEN HeadUpload ELSE HeadMedia
    /\ UNCHANGED <<nodeConf, asked, nodeTime, poolFull, put>>

SendPut ==
    /\ put = Unanswered
    /\ put' = IF nodeConf.route = "upload" THEN PutUpload ELSE PutMedia
    /\ UNCHANGED <<nodeConf, asked, nodeTime, poolFull, told>>

\* Other requests take the last worker, or give one back.
PoolChanges ==
    /\ put = Unanswered
    /\ poolFull' = ~poolFull
    /\ UNCHANGED <<nodeConf, asked, nodeTime, told, put>>

SecondPasses ==
    /\ put = Unanswered /\ nodeTime < LastSecond
    /\ nodeTime' = nodeTime + 1
    /\ UNCHANGED <<nodeConf, asked, poolFull, told, put>>

AdmissionNext == AskHead \/ SendPut \/ PoolChanges \/ SecondPasses

AdmissionSpec == AdmissionInit /\ [][AdmissionNext]_admissionVars
-----------------------------------------------------------------------------
\* What HEAD leaves open: time and the pool, the digest, a media length that
\* it does not insist on or a media type it was not told, and a token that PUT
\* /upload does not look at.
LeftOpen ==
    \/ put[2] \in {"expired", "busy", "sha", "x"}
    \/ nodeConf.route = "media" /\ put[2] = "length"
    \/ nodeConf.route = "media" /\ put[2] = "rule" /\ asked.type = NoHeader
    \/ nodeConf.route = "upload" /\ put[2] = "rule" /\ ~nodeConf.requireAuth /\ asked.token # NoToken

\* What a later PUT may get past: time and the pool again, and parameters of
\* the type, which only HEAD /upload takes for a part of it.
Overcome ==
    \/ told[2] \in {"future", "busy"}
    \/ nodeConf.route = "upload" /\ told[2] = "rule" /\ asked.type # NoHeader /\ asked.type[3]

\* A preflight can be relied on: a client that HEAD told to go ahead is not
\* refused by the PUT except on what HEAD leaves open, and one that HEAD
\* refused would have been refused by the PUT as well.
PreflightHolds ==
    told # Unanswered /\ put # Unanswered =>
        /\ told = Ok /\ put # Ok => LeftOpen
        /\ told # Ok /\ put = Ok => Overcome
=============================================================================
