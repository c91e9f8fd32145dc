------------------------------- MODULE MCMesh -------------------------------
(***************************************************************************)
(* The control plane, with two members, one storage and two requests at a  *)
(* time; the admin application that calls it; and the two halves of the    *)
(* database mesh.  They share no state, so a behaviour runs the one that   *)
(* `focus' names and leaves the others where they start.                   *)
(***************************************************************************)
EXTENDS ControlPlane, AdminSession, ProfileTabs, MeshSchema, MeshWrites, TLC

CONSTANTS m1, m2, d1, r1, r2

VARIABLE focus

\* Bootstrap administrators, storages and requests are interchangeable.
Symmetry == Permutations(Bootstrap) \cup Permutations(Device) \cup Permutations(Req)

\* hash(row) over the nodes in npub order; a row stands for its hash.
MCRing ==
    [to \in MeshRow \X ((SUBSET MeshNode) \ {{}}) |->
        LET npubs == SelectSeq(<<"n1", "n2">>, LAMBDA n : n \in to[2])
        IN  npubs[(to[1] % Len(npubs)) + 1]]

-----------------------------------------------------------------------------
MeshInit ==
    /\ focus \in {"control", "session", "tabs", "schema", "writes"}
    /\ Init /\ SessionInit /\ TabsInit /\ SchemaInit /\ WritesInit

\* The programs that are not in focus rest.
Rest(p, v) == focus # p => UNCHANGED v

MeshNext ==
    /\ UNCHANGED focus
    /\ \/ focus = "control" /\ Next
       \/ focus = "session" /\ SessionNext
       \/ focus = "tabs" /\ TabsNext
       \/ focus = "schema" /\ SchemaNext
       \/ focus = "writes" /\ WritesNext
    /\ Rest("control", vars) /\ Rest("session", sessionVars)
    /\ Rest("tabs", tabVars) /\ Rest("schema", schemaVars)
    /\ Rest("writes", writesVars)

MeshSpec ==
    MeshInit /\ [][MeshNext]_<<focus, vars, sessionVars, tabVars, schemaVars, writesVars>>
=============================================================================
