------------------------------- MODULE Signer -------------------------------
(***************************************************************************)
(* The browser signer's service worker (packages/browser-signer/src/       *)
(* core.ts and background.ts): keys stored in chrome.storage, one of them  *)
(* decrypted in memory, and the origins that may use it.  Every handler of *)
(* a popup message reads a whole list, awaits, and writes the whole list   *)
(* back, so that two of them may interleave there.                         *)
(***************************************************************************)
EXTENDS FiniteSets

CONSTANTS
    SignerKey,      \* keys
    SiteOrigin,     \* origins of pages
    PopupCall       \* bound: messages handled at a time

\* A key is an npub, an origin a URL.
ASSUME SignerAssumption == SignerKey \cap SiteOrigin = {}

NoKey == "no key"
IdleCall == [at |-> "idle"]
KeyEdits == {"import", "remove", "unlock", "removed"}
SiteEdits == {"allow", "deny"}

VARIABLES
    storedKeys,   \* chrome.storage: profiles
    allowlist,    \* chrome.storage: allowlist
    activeKey,    \* state.activeSecret / activeNpub, memory only
    handler,      \* the handlers in progress, each with the list it read
    wanted,       \* history: keys added and not removed, sites enabled and not disabled
    crossed       \* history: the lists of which two handlers were in progress together

signerVars == <<storedKeys, allowlist, activeKey, handler, wanted, crossed>>

SignerInit ==
    /\ storedKeys = {} /\ allowlist = {}
    /\ activeKey = NoKey
    /\ handler = [c \in PopupCall |-> IdleCall]
    /\ wanted = {}
    /\ crossed = {}

\* The handler's first await: the list it works on, as it is now.
ReadStore(c, what, x) ==
    LET edits == IF what \in KeyEdits THEN KeyEdits ELSE SiteEdits IN
    /\ handler[c].at = "idle"
    /\ handler' = [handler EXCEPT ![c] =
           [at |-> what, arg |-> x,
            list |-> IF what \in KeyEdits THEN storedKeys ELSE allowlist]]
    /\ crossed' = crossed \cup {l \in {edits} : \E d \in PopupCall : handler[d].at \in l}
    /\ UNCHANGED <<storedKeys, allowlist, activeKey, wanted>>

Finish(c) == handler' = [handler EXCEPT ![c] = IdleCall]

\* importKey refuses a key of the list; generateKey's key is never in it.
ImportKey(c) ==
    LET k == handler[c].arg IN
    /\ handler[c].at = "import"
    /\ IF k \in handler[c].list
       THEN UNCHANGED <<storedKeys, wanted>>
       ELSE /\ storedKeys' = handler[c].list \cup {k}
            /\ wanted' = wanted \cup {k}
    /\ Finish(c)
    /\ UNCHANGED <<allowlist, activeKey, crossed>>

\* removeProfile writes the list without the key, and awaits the write.
RemoveProfile(c) ==
    LET k == handler[c].arg IN
    /\ handler[c].at = "remove"
    /\ storedKeys' = handler[c].list \ {k}
    /\ wanted' = wanted \ {k}
    /\ handler' = [handler EXCEPT ![c].at = "removed"]
    /\ UNCHANGED <<allowlist, activeKey, crossed>>

\* removeProfile without its last line.
LeaveRemoved(c) ==
    /\ handler[c].at = "removed"
    /\ Finish(c)
    /\ UNCHANGED <<storedKeys, allowlist, activeKey, wanted, crossed>>

\* Its last line: lock if the key is the active one.
LockRemoved(c) ==
    /\ handler[c].at = "removed"
    /\ activeKey' = IF activeKey = handler[c].arg THEN NoKey ELSE activeKey
    /\ Finish(c)
    /\ UNCHANGED <<storedKeys, allowlist, wanted, crossed>>

\* unlock: an unknown profile or a wrong passphrase leaves the state alone.
Unlock(c) ==
    /\ handler[c].at = "unlock"
    /\ activeKey' \in {activeKey} \cup ({handler[c].arg} \cap handler[c].list)
    /\ Finish(c)
    /\ UNCHANGED <<storedKeys, allowlist, wanted, crossed>>

\* lock, or five idle minutes.
LockSigner ==
    /\ activeKey # NoKey
    /\ activeKey' = NoKey
    /\ UNCHANGED <<storedKeys, allowlist, handler, wanted, crossed>>

SetOriginAllowed(c) ==
    LET o == handler[c].arg IN
    /\ \/ /\ handler[c].at = "allow"
          /\ allowlist' = handler[c].list \cup {o}
          /\ wanted' = wanted \cup {o}
       \/ /\ handler[c].at = "deny"
          /\ allowlist' = handler[c].list \ {o}
          /\ wanted' = wanted \ {o}
    /\ Finish(c)
    /\ UNCHANGED <<storedKeys, activeKey, crossed>>

SignerNext ==
    \/ LockSigner
    \/ \E c \in PopupCall :
           \/ \E k \in SignerKey, what \in KeyEdits \ {"removed"} : ReadStore(c, what, k)
           \/ \E o \in SiteOrigin, what \in SiteEdits : ReadStore(c, what, o)
           \/ ImportKey(c) \/ RemoveProfile(c) \/ LockRemoved(c)
           \/ Unlock(c) \/ SetOriginAllowed(c)

SignerSpec == SignerInit /\ [][SignerNext]_signerVars

-----------------------------------------------------------------------------

\* A list of the store is what the popup's edits made it while no two
\* handlers of that list overlapped, whatever handlers of the other one did;
\* and a decrypted key is a stored one, but for the moment between
\* removeProfile's write and its lock.
EditsKept ==
    /\ KeyEdits \notin crossed =>
           /\ storedKeys = wanted \cap SignerKey
           /\ activeKey \in storedKeys \cup {NoKey}
                  \cup {handler[c].arg : c \in {d \in PopupCall : handler[d].at = "removed"}}
    /\ SiteEdits \notin crossed => allowlist = wanted \cap SiteOrigin
=============================================================================
