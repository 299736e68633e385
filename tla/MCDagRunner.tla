---------------------------- MODULE MCDagRunner ----------------------------
(***************************************************************************)
(* An audit gate, a fetch step that writes raw, which may stay away, and a *)
(* build step that needs fetch and reads what it wrote.                    *)
(***************************************************************************)
EXTENDS DagRunner, TLC

CONSTANTS fetch, build, audit, source, raw, v1, v2

MCTopology == <<audit, fetch, build>>
MCNeeds == fetch :> {} @@ build :> {fetch} @@ audit :> {}
MCInputs == fetch :> {source} @@ build :> {raw} @@ audit :> {}
MCOutputs == fetch :> {raw} @@ build :> {} @@ audit :> {}
MCMaxAttempts == fetch :> 2 @@ build :> 2 @@ audit :> 2
MCAllowed == source :> {v1, v2} @@ raw :> {v1, v2}
=============================================================================
