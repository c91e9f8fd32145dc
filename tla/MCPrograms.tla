----------------------------- MODULE MCPrograms -----------------------------
(***************************************************************************)
(* The self-contained programs of the repository, each on a small          *)
(* instance of its own.  They share no state, so a behaviour runs the one  *)
(* that `focus' names and leaves the others where they start: the state    *)
(* spaces add up instead of multiplying.                                   *)
(***************************************************************************)
EXTENDS DbChannel, LegacyMigration, NodeListing, ReportDesk, RequestGuards,
        UploadQueue, Purchase, Signer, ProxyEdge, ByteRange, Admission,
        Placement, AccountPage, BlobBackend

VARIABLE focus

-----------------------------------------------------------------------------
\* Values of the constants that a configuration file cannot write.

Signs(k, verb, last, hashes) ==
    [NoToken EXCEPT !.pubkey = k, !.t = verb, !.expiration = last, !.x = hashes]
GoodToken == Signs("k1", "upload", 1, {})
MCAsk ==
    LET tokens == {NoToken, GoodToken, Signs("k1", "media", 1, {}),
                   Signs("k1", "upload", 0, {"y"}), Signs("k2", "upload", 1, {"x"}),
                   [GoodToken EXCEPT !.created = 2],
                   [GoodToken EXCEPT !.server = {"other"}],
                   [GoodToken EXCEPT !.server = {"other", "this"}]}
        flawed == {[GoodToken EXCEPT !.flaw = f] :
                      f \in {"encoding", "kind", "expiration", "t", "signature"}}
        types == {NoHeader, <<"png", "image/*", FALSE>>, <<"png", "image/*", TRUE>>}
    IN  [token : tokens, type : types, length : {1}, sha : {"none", "x", "malformed"}]
        \cup [token : flawed \cup {NoToken, GoodToken}, type : types,
              length : {NoLength, NaL, 1, 2}, sha : {"none"}]
MCNodeConf ==
    LET rules == {{}, {<<{}, "png">>}, {<<{"k1"}, "image/*">>, <<{}, "octet">>}}
    IN  [route : {"upload", "media"}, enabled : {TRUE}, requireAuth : BOOLEAN,
         inRule : BOOLEAN, rules : rules]
        \cup [route : {"upload", "media"}, enabled : {FALSE}, requireAuth : {TRUE},
              inRule : {FALSE}, rules : {{}}]

\* The second and the third storage are one machine.
MCHost == <<11, 12, 12>>

-----------------------------------------------------------------------------
\* Where an initial state is a choice, only the program in focus makes it.
Init ==
    /\ focus \in {"channel", "migration", "listing", "desk", "guards", "queue",
                  "purchase", "signer", "edge", "range", "admission",
                  "placement", "dashboard", "backend"}
    /\ MigrationInit
    /\ focus # "migration" => dbFile.schema = "none" /\ oddity = "none"
    /\ GuardInit
    /\ focus # "guards" => created = [s \in Signed |-> 0] /\ gate = "admin"
    /\ QueueInit
    /\ focus # "queue" => form = "upload" /\ ~auth /\ ~nostr
    /\ RangeInit
    /\ focus # "range" => blobSize = 1 /\ wants = <<0, 0>> /\ seeks
    /\ AdmissionInit
    /\ focus # "admission" => /\ nodeConf = CHOOSE c \in NodeConf : TRUE
                              /\ asked = CHOOSE a \in Ask : TRUE
    /\ PlaceInit
    /\ focus # "placement" => place = NoPlace
    /\ PageInit
    /\ focus # "dashboard" => extension = CHOOSE k \in Holder : TRUE
    /\ BackendInit
    /\ focus # "backend" => adapter = "local"
    /\ PurchaseInit
    /\ focus # "purchase" => signupsOpen
    /\ ListingInit
    /\ focus # "listing" => reader = "client"
    /\ ChannelInit /\ DeskInit /\ SignerInit /\ EdgeInit
    /\ AccountInit

\* The programs that are not in focus rest.
Rest(p, v) == focus # p => UNCHANGED v

Next ==
    /\ UNCHANGED focus
    /\ \/ focus = "channel" /\ ChannelNext
       \/ focus = "migration" /\ MigrationNext
       \/ focus = "listing" /\ ListingNext
       \/ focus = "desk" /\ DeskNext
       \/ focus = "guards" /\ GuardNext
       \/ focus = "queue" /\ QueueNext
       \/ focus = "purchase" /\ PurchaseNext
       \/ focus = "signer" /\ SignerNext
       \/ focus = "edge" /\ EdgeNext
       \/ focus = "range" /\ RangeNext
       \/ focus = "admission" /\ AdmissionNext
       \/ focus = "placement" /\ PlaceNext
       \/ focus = "dashboard" /\ PageNext
       \/ focus = "backend" /\ BackendNext
    /\ Rest("channel", channelVars) /\ Rest("migration", migrationVars)
    /\ Rest("listing", listingVars) /\ Rest("desk", deskVars)
    /\ Rest("guards", guardVars) /\ Rest("queue", queueVars)
    /\ Rest("purchase", purchaseVars)
    /\ Rest("signer", signerVars) /\ Rest("edge", <<accountVars, edgeVars>>)
    /\ Rest("range", rangeVars) /\ Rest("admission", admissionVars)
    /\ Rest("placement", placeVars) /\ Rest("dashboard", dashVars)
    /\ Rest("backend", backendVars)

Spec == Init /\ [][Next]_<<focus, channelVars, migrationVars, listingVars,
                            deskVars, guardVars, queueVars, purchaseVars,
                            signerVars, accountVars, edgeVars, rangeVars,
                            admissionVars, placeVars, dashVars, backendVars>>
=============================================================================
