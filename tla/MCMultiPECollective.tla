------------------------- MODULE MCMultiPECollective -------------------------
(***************************************************************************)
(* Three PEs.  Workgroup a of p1 and p2 reduces twice over the pair shape; *)
(* workgroup b of every PE reduces once over the world shape.  The two     *)
(* workgroups of a PE post independently, so their packets reach the      *)
(* queue in either order.                                                  *)
(***************************************************************************)
EXTENDS MultiPECollective

MCMembers == [s \in {"Pair", "World"} |->
                IF s = "Pair" THEN {"p1", "p2"} ELSE {"p1", "p2", "p3"}]

MCProg == [p \in {"p1", "p2", "p3"} |->
             [w \in {"a", "b"} |->
                IF w = "b" THEN << "World" >>
                ELSE IF p = "p3" THEN << >> ELSE << "Pair", "Pair" >>]]

(* comm_map empty: the first collectives on each shape build the comm.     *)
MCCacheCold == [p \in {"p1", "p2", "p3"} |-> {}]

(* comm_map after an earlier collective on World only: Pair is still built *)
(* on its first use, by its two members.                                   *)
MCCacheWarm == [p \in {"p1", "p2", "p3"} |-> {"World"}]
=============================================================================
