------------------------------ MODULE Purchase ------------------------------
(***************************************************************************)
(* Buying a plan in the console (packages/console/src/pages/Pricing.tsx    *)
(* over api.ts and signer.tsx): choose a tier, have the backend issue a    *)
(* Lightning invoice, show it with a QR code, and wait on a WebSocket for  *)
(* its payment.  Between any two of these the customer may choose again,   *)
(* close the dialog, pay, or connect another key.                          *)
(*                                                                         *)
(* A tier is its rank, an invoice its number.  The backend that issues     *)
(* invoices, takes payments and grants plans is modelled from how this     *)
(* page uses it.                                                           *)
(***************************************************************************)
EXTENDS Integers, Sequences

CONSTANTS
    Tier,           \* purchasable tiers, by rank
    Customer,       \* keys a signer may connect
    MaxInvoices     \* bound: invoices ever issued

Nobody == "nobody"
NoInvoice == 0
NoAccount == [who |-> Nobody, tier |-> 0]

VARIABLES
    identity,     \* the connected key
    account,      \* the account on the page: whose, and the live plan's rank
    loading,      \* account requests not answered yet
    selected,     \* the chosen tier
    terms,        \* the terms are accepted
    signupsOpen,  \* as the page knows it
    buying,       \* a buy() in progress
    shown,        \* the invoice in the dialog
    paid,         \* the page holds it to be paid
    sockets,      \* invoices with an open WebSocket
    stopWatch,    \* the socket stopWatch.current would close
    invoices,     \* the backend: for whom and for which tier each was issued
    collected,    \* the backend: the invoices that were paid
    early,        \* history: a dialog was closed before its QR code was there
    switched      \* history: the tier was changed while an invoice was issued

purchaseVars == <<identity, account, loading, selected, terms, signupsOpen, buying,
                  shown, paid, sockets, stopWatch, invoices, collected, early, switched>>

NotBuying == [at |-> "idle"]

\* What the backend says when the page opens; unknown counts as open.
GetSignupsOpen == BOOLEAN

PurchaseInit ==
    /\ identity = Nobody /\ account = NoAccount /\ loading = {}
    /\ selected = CHOOSE t \in Tier : \A u \in Tier : t <= u
    /\ terms = FALSE /\ signupsOpen \in GetSignupsOpen
    /\ buying = NotBuying
    /\ shown = NoInvoice /\ paid = FALSE
    /\ sockets = {} /\ stopWatch = NoInvoice
    /\ invoices = <<>> /\ collected = {}
    /\ early = FALSE /\ switched = FALSE

dialog == <<buying, shown, paid, sockets, stopWatch>>
backend == <<invoices, collected>>
history == <<early, switched>>

\* The rank of a key's live plan, from the invoices it paid (backend).
Plan(who) ==
    LET ranks == {invoices[i].tier : i \in {j \in collected : invoices[j].who = who}}
    IN  IF ranks = {} THEN 0 ELSE CHOOSE r \in ranks : \A q \in ranks : q <= r

(***************************************************************************)
(* The page around the dialog                                              *)
(***************************************************************************)

\* Connecting a key loads its account; disconnecting leaves the old one up.
ConnectSigner(who) ==
    /\ shown = NoInvoice /\ identity # who
    /\ identity' = who
    /\ loading' = IF who = Nobody THEN loading ELSE loading \cup {who}
    /\ UNCHANGED <<account, selected, terms, signupsOpen, dialog, backend, history>>

\* getStorage answers for the key it was asked with, or fails unnoticed.
AccountLoads(who) ==
    /\ who \in loading
    /\ loading' = loading \ {who}
    /\ account' \in {account, [who |-> who, tier |-> Plan(who)]}
    /\ UNCHANGED <<identity, selected, terms, signupsOpen, dialog, backend, history>>

\* The rank of the live plan, 0 when there is none.
CurrentRank == account.tier

\* A tier below the live plan's cannot be chosen; the page stays usable
\* while an invoice is being issued.
ChooseTier(t) ==
    /\ shown = NoInvoice /\ selected # t
    /\ t >= CurrentRank
    /\ selected' = t
    /\ switched' = (switched \/ buying.at # "idle")
    /\ UNCHANGED <<identity, account, loading, terms, signupsOpen, dialog, backend, early>>

AcceptTerms ==
    /\ shown = NoInvoice /\ ~terms
    /\ terms' = TRUE
    /\ UNCHANGED <<identity, account, loading, selected, signupsOpen, dialog, backend, history>>

SignupsPaused == ~signupsOpen /\ account.tier = 0

(***************************************************************************)
(* buy()                                                                   *)
(***************************************************************************)

\* The button: a key, the terms, no other buy() and sign-ups for a new one.
CanBuy == buying.at = "idle" /\ identity # Nobody /\ terms /\ ~SignupsPaused

PressBuy ==
    /\ shown = NoInvoice /\ CanBuy
    /\ buying' = [at |-> "issue", who |-> identity, tier |-> selected]
    /\ UNCHANGED <<identity, account, loading, selected, terms, signupsOpen, shown,
                   paid, sockets, stopWatch, backend, history>>

\* The invoice goes up before its QR code and its socket are there.
InvoiceIssued ==
    /\ buying.at = "issue" /\ Len(invoices) < MaxInvoices
    /\ invoices' = Append(invoices, [who |-> buying.who, tier |-> buying.tier])
    /\ shown' = Len(invoices) + 1
    /\ paid' = FALSE
    /\ buying' = [at |-> "qr", invoice |-> Len(invoices) + 1]
    /\ UNCHANGED <<identity, account, loading, selected, terms, signupsOpen, sockets,
                   stopWatch, collected, history>>

\* Refused; "signups_closed" is remembered.
InvoiceRefused ==
    /\ buying.at = "issue"
    /\ signupsOpen' \in {signupsOpen, FALSE}
    /\ buying' = NotBuying
    /\ UNCHANGED <<identity, account, loading, selected, terms, shown, paid, sockets,
                   stopWatch, backend, history>>

\* The QR code is there: the previous socket is closed, a new one opened,
\* whether or not the dialog is still up.
WatchInvoice ==
    /\ buying.at = "qr"
    /\ sockets' = (sockets \ {stopWatch}) \cup {buying.invoice}
    /\ stopWatch' = buying.invoice
    /\ buying' = NotBuying
    /\ UNCHANGED <<identity, account, loading, selected, terms, signupsOpen, shown,
                   paid, backend, history>>

\* The QR code could not be drawn: the dialog stays up with no socket.
QrFails ==
    /\ buying.at = "qr"
    /\ buying' = NotBuying
    /\ UNCHANGED <<identity, account, loading, selected, terms, signupsOpen, shown,
                   paid, sockets, stopWatch, backend, history>>

\* The payment is announced on an open socket, which closes; or the socket
\* is lost, and nothing opens another.
SocketPaid(i) ==
    /\ i \in sockets \cap collected
    /\ sockets' = sockets \ {i}
    /\ paid' = TRUE
    /\ UNCHANGED <<identity, account, loading, selected, terms, signupsOpen, buying,
                   shown, stopWatch, backend, history>>

SocketLost(i) ==
    /\ i \in sockets
    /\ sockets' = sockets \ {i}
    /\ UNCHANGED <<identity, account, loading, selected, terms, signupsOpen, buying,
                   shown, paid, stopWatch, backend, history>>

\* Closing the dialog, the socket left open.
CloseKeepsSocket ==
    /\ shown # NoInvoice
    /\ stopWatch' = NoInvoice
    /\ shown' = NoInvoice
    /\ loading' = IF paid /\ identity # Nobody THEN loading \cup {identity} ELSE loading
    /\ early' = (early \/ buying.at = "qr")
    /\ UNCHANGED <<identity, account, selected, terms, signupsOpen, buying, paid,
                   sockets, backend, switched>>

\* closeInvoice: stop watching, take the dialog down, reload after a payment.
CloseInvoice ==
    /\ shown # NoInvoice
    /\ sockets' = sockets \ {stopWatch}
    /\ stopWatch' = NoInvoice
    /\ shown' = NoInvoice
    /\ loading' = IF paid /\ identity # Nobody THEN loading \cup {identity} ELSE loading
    /\ early' = (early \/ buying.at = "qr")
    /\ UNCHANGED <<identity, account, selected, terms, signupsOpen, buying, paid,
                   backend, switched>>

\* What the dialog says: "Payment received" or waiting, and the plan's name,
\* which is that of the chosen tier.
Dialog == [received |-> paid, plan |-> selected]

\* The customer pays an invoice from a wallet, dialog or no dialog (external).
InvoicePaid(i) ==
    /\ i \in DOMAIN invoices \ collected
    /\ collected' = collected \cup {i}
    /\ UNCHANGED <<identity, account, loading, selected, terms, signupsOpen, dialog,
                   invoices, history>>

PurchaseNext ==
    \/ \E who \in Customer \cup {Nobody} : ConnectSigner(who)
    \/ \E who \in Customer : AccountLoads(who)
    \/ \E t \in Tier : ChooseTier(t)
    \/ AcceptTerms \/ PressBuy \/ InvoiceIssued \/ InvoiceRefused
    \/ WatchInvoice \/ QrFails \/ CloseInvoice
    \/ \E i \in 1..MaxInvoices : SocketPaid(i) \/ SocketLost(i) \/ InvoicePaid(i)

PurchaseSpec == PurchaseInit /\ [][PurchaseNext]_purchaseVars

-----------------------------------------------------------------------------

\* The dialog says "Payment received" only of an invoice that was paid, and
\* names the tier it was issued for.  The first fails only after a dialog was
\* closed before its QR code was there (its socket then opens with nothing
\* left to close it), the second only after the tier was changed while an
\* invoice was being issued (Pricing.tsx, buy and the dialog).
DialogTrue ==
    shown # NoInvoice =>
        /\ Dialog.received => (shown \in collected \/ early)
        /\ Dialog.plan = invoices[shown].tier \/ switched
=============================================================================
