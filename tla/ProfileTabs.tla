---------------------------- MODULE ProfileTabs ----------------------------
(***************************************************************************)
(* The admin app's host profiles in two tabs of one browser: the form that *)
(* makes one (components/ProfileDialog.tsx), the dialogs and what App.tsx  *)
(* does with them, and the list in localStorage that the tabs share        *)
(* (hooks/useProfiles.ts).  Each tab keeps a copy of the list and of the   *)
(* selection in React state and has a session of its own.  A call of a tab *)
(* runs alone in it here; AdminSession has the ones that overlap.          *)
(*                                                                         *)
(* A profile is its credential, one per host.                              *)
(***************************************************************************)
EXTENDS Integers, Sequences, SequencesExt

CONSTANTS
    Tab,        \* browser tabs
    Credential, \* encrypted keys, one for each profile
    MaxDeeds    \* bound: calls made

Missing == "missing"
NoDeed == [at |-> "none"]

VARIABLES
    disk,       \* localStorage: the stored profiles and the selected one
    tab,        \* a tab: profiles, selected, session, dialog, busy
    deed,       \* the call in progress in a tab
    deeds,      \* calls so far
    added,      \* history: profiles that were added
    deleted,    \* history: profiles that an operator deleted
    mistaken    \* history: tabs whose copy another tab has made stale

tabVars == <<disk, tab, deed, deeds, added, deleted, mistaken>>

FirstOr(s) == IF s = <<>> THEN Missing ELSE s[1]

\* useProfiles and useState: a stored selection counts if its profile exists.
Opened(d) ==
    [profiles |-> d.stored,
     selected |-> IF Contains(d.stored, d.selected) THEN d.selected ELSE FirstOr(d.stored),
     session |-> Missing,
     dialog |-> IF d.stored = <<>> THEN "profile" ELSE "none",
     busy |-> FALSE]

TabsInit ==
    /\ disk = [stored |-> <<>>, selected |-> Missing]
    /\ tab = [t \in Tab |-> Opened(disk)]
    /\ deed = [t \in Tab |-> NoDeed] /\ deeds = 0
    /\ added = {} /\ deleted = {} /\ mistaken = {}

\* The tab is closed or reloaded: what it was doing is gone.
Reload(t) ==
    /\ tab[t] # Opened(disk)
    /\ tab' = [tab EXCEPT ![t] = Opened(disk)]
    /\ deed' = [deed EXCEPT ![t] = NoDeed]
    /\ mistaken' = mistaken \ {t}
    /\ UNCHANGED <<disk, deeds, added, deleted>>
-----------------------------------------------------------------------------
(***************************************************************************)
(* useProfiles.ts: each change starts from what is on disk                 *)
(***************************************************************************)

\* commit: written through, and shown.
Commit(t, profiles, selected, page) ==
    /\ disk' = [stored |-> profiles, selected |-> selected]
    /\ tab' = [tab EXCEPT ![t] = [page EXCEPT !.profiles = profiles, !.selected = selected]]
    /\ mistaken' = (mistaken \ (IF deed[t].do \in {"save", "switch"} THEN {t} ELSE {}))
                   \cup (IF disk' = disk THEN {} ELSE Tab \ {t})

\* The list that the tab remembers.
AddToCopy(t, c) == Append(tab[t].profiles, c)

AddProfile(t, c) == Append(disk.stored, c)

\* The first that is left, if it was the selected one.
RemoveProfileOf(t, c, page) ==
    LET left == SelectSeq(disk.stored, LAMBDA p : p # c)
    IN  Commit(t, left, IF disk.selected = c THEN FirstOr(left) ELSE disk.selected, page)

SelectProfile(t, c, page) ==
    IF Contains(disk.stored, c) THEN Commit(t, disk.stored, c, page)
    ELSE tab' = [tab EXCEPT ![t] = page] /\ UNCHANGED <<disk, mistaken>>

\* update records the npub and takes the selection of the disk.
UpdateProfile(t, page) == Commit(t, disk.stored, disk.selected, page)
-----------------------------------------------------------------------------
(***************************************************************************)
(* The dialogs                                                             *)
(***************************************************************************)

Page(t, p) ==
    /\ tab' = [tab EXCEPT ![t] = p]
    /\ UNCHANGED <<disk, deed, deeds, added, deleted, mistaken>>

\* The pill in the top bar, or the locked panel.
OpenProfiles(t) ==
    /\ tab[t].dialog = "none"
    /\ Page(t, [tab[t] EXCEPT !.dialog = "profile"])

\* Without a profile the dialog cannot be dismissed.
CloseDialog(t) ==
    /\ tab[t].dialog # "none" /\ tab[t].dialog = "profile" => tab[t].profiles # <<>>
    /\ Page(t, [tab[t] EXCEPT !.dialog = IF tab[t].profiles = <<>> THEN "profile" ELSE "none"])

\* A backup of a profile of the list.
BackUpProfile(t) ==
    /\ tab[t].dialog = "profile" /\ ~tab[t].busy /\ tab[t].profiles # <<>>
    /\ Page(t, [tab[t] EXCEPT !.dialog = "secret"])
-----------------------------------------------------------------------------
(***************************************************************************)
(* The calls of App.tsx                                                    *)
(***************************************************************************)

Call(t, d, page) ==
    /\ deed[t] = NoDeed /\ deeds < MaxDeeds
    /\ deed' = [deed EXCEPT ![t] = d] /\ deeds' = deeds + 1
    /\ tab' = [tab EXCEPT ![t] = page]
    /\ UNCHANGED <<disk, added, deleted, mistaken>>

\* submit, once every field of the mode is filled; a passphrase that is new is
\* typed twice, and refused if the two differ.  The page is busy only once the
\* key is made and unlock() begins.
SubmitProfile(t, c, mode, same) ==
    /\ tab[t].dialog = "profile" /\ ~tab[t].busy
    /\ mode = "ncryptsec" \/ same
    /\ c \notin added /\ \A u \in Tab : deed[u].at # "none" => deed[u].cred # c
    /\ Call(t, [at |-> "prepare", do |-> "save", cred |-> c, made |-> mode # "ncryptsec"],
            tab[t])

UnlockSelected(t) ==
    /\ tab[t].session = Missing /\ tab[t].dialog = "none" /\ ~tab[t].busy
    /\ tab[t].selected # Missing
    /\ Call(t, [at |-> "unlock", do |-> "unlock", cred |-> tab[t].selected, made |-> FALSE],
             [tab[t] EXCEPT !.busy = TRUE])

LockTab(t) ==
    /\ tab[t].session # Missing /\ tab[t].dialog = "none"
    /\ Call(t, [at |-> "lock", do |-> "lock", cred |-> Missing], tab[t])

SwitchProfile(t, c) ==
    /\ tab[t].dialog = "profile" /\ ~tab[t].busy /\ Contains(tab[t].profiles, c)
    /\ Call(t, [at |-> "lock", do |-> "switch", cred |-> c], tab[t])

\* Deleting the selected profile locks first.
DeleteProfile(t, c) ==
    /\ tab[t].dialog = "profile" /\ ~tab[t].busy /\ Contains(tab[t].profiles, c)
    /\ Call(t, [at |-> IF c = tab[t].selected THEN "lock" ELSE "locked",
                 do |-> "delete", cred |-> c], tab[t])

CreateInvite(t) ==
    /\ tab[t].session # Missing /\ tab[t].dialog = "none" /\ ~tab[t].busy
    /\ Call(t, [at |-> "invite", do |-> "invite", cred |-> Missing], [tab[t] EXCEPT !.busy = TRUE])

-----------------------------------------------------------------------------
(***************************************************************************)
(* The calls go on when what they await is there                           *)
(***************************************************************************)

On(t, step) ==
    /\ deed' = [deed EXCEPT ![t].at = step]
    /\ UNCHANGED <<disk, deeds, added, deleted, mistaken>>

Over(t) == deed' = [deed EXCEPT ![t] = NoDeed] /\ UNCHANGED deeds

\* A failure is a toast, and the call is over.
Fail(t) ==
    /\ deed[t].at \in {"prepare", "unlock", "invite"}
    /\ Over(t)
    /\ tab' = [tab EXCEPT ![t].busy = FALSE]
    /\ UNCHANGED <<disk, added, deleted, mistaken>>

\* The address is normal and the key is made: unlock() begins.
Prepared(t) ==
    /\ deed[t].at = "prepare" /\ On(t, "unlock")
    /\ tab' = [tab EXCEPT ![t].busy = TRUE]

Unlocked(t) ==
    /\ deed[t].at = "unlock" /\ On(t, "unlocked")
    /\ tab' = [tab EXCEPT ![t].session = deed[t].cred]

\* saveProfile stores the credential and shows a new one for backup;
\* unlockSelected records the npub.
UnlockEnds(t) ==
    /\ deed[t].at = "unlocked" /\ Over(t)
    /\ LET c == deed[t].cred
           page == [tab[t] EXCEPT !.busy = FALSE]
       IN  IF deed[t].do = "save"
           THEN /\ Commit(t, AddProfile(t, c), c,
                          [page EXCEPT !.dialog = IF deed[t].made THEN "secret" ELSE "none"])
                /\ added' = added \cup {c}
           ELSE UpdateProfile(t, page) /\ UNCHANGED added
    /\ UNCHANGED deleted

Locked(t) ==
    /\ deed[t].at = "lock" /\ On(t, "locked")
    /\ tab' = [tab EXCEPT ![t].session = Missing, ![t].busy = FALSE]

\* What the lock was for.
LockEnds(t) ==
    /\ deed[t].at = "locked" /\ Over(t)
    /\ CASE deed[t].do = "lock" ->
              /\ tab' = [tab EXCEPT ![t].dialog = "none"]
              /\ UNCHANGED <<disk, mistaken, deleted>>
         [] deed[t].do = "switch" ->
              /\ SelectProfile(t, deed[t].cred, [tab[t] EXCEPT !.dialog = "none"])
              /\ UNCHANGED deleted
         [] deed[t].do = "delete" ->
              /\ RemoveProfileOf(t, deed[t].cred, tab[t])
              /\ deleted' = deleted \cup {deed[t].cred}
    /\ UNCHANGED added

InviteMade(t) ==
    /\ deed[t].at = "invite" /\ Over(t)
    /\ tab' = [tab EXCEPT ![t].busy = FALSE, ![t].dialog = "secret"]
    /\ UNCHANGED <<disk, added, deleted, mistaken>>

TabsNext == \E t \in Tab :
    \/ Reload(t) \/ OpenProfiles(t) \/ CloseDialog(t) \/ BackUpProfile(t)
    \/ \E c \in Credential, mode \in {"ncryptsec", "nsec", "create"}, same \in BOOLEAN :
          SubmitProfile(t, c, mode, same)
    \/ \E c \in Credential : SwitchProfile(t, c) \/ DeleteProfile(t, c)
    \/ UnlockSelected(t) \/ LockTab(t) \/ CreateInvite(t)
    \/ Fail(t) \/ Prepared(t) \/ Unlocked(t) \/ UnlockEnds(t)
    \/ Locked(t) \/ LockEnds(t) \/ InviteMade(t)

TabsSpec == TabsInit /\ [][TabsNext]_tabVars
-----------------------------------------------------------------------------
\* No tab loses a profile that another has added, and none brings back one
\* that another has deleted; and a tab that is at rest and unlocked names the
\* profile of its own session, unless the other tab changed the list or the
\* selection since that session was begun (useProfiles.ts: "Write through on
\* every mutation so a crash cannot lose a new profile").
ProfilesKept ==
    /\ Range(disk.stored) = added \ deleted
    /\ disk.selected = Missing => disk.stored = <<>>
    /\ \A t \in Tab :
          tab[t].session # Missing /\ deed[t] = NoDeed /\ t \notin mistaken
             => tab[t].selected = tab[t].session
=============================================================================
