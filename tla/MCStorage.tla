----------------------------- MODULE MCStorage -----------------------------
(***************************************************************************)
(* Storage with names that collide: two spellings of one slug, a name that *)
(* is the slug the second of them is given, and a slug of 64 characters,   *)
(* which no suffix can be added to.                                        *)
(***************************************************************************)
EXTENDS Storage, Sequences

MCName == {"acme", "Acme", "Acme 2"}
MCTyped == {"long"}
MCSlugify == [t \in MCName \cup MCTyped |->
                CASE t \in {"acme", "Acme"} -> "acme"
                  [] t = "Acme 2" -> "acme-2"
                  [] t = "long" -> "long"]
MCNumbered == [p \in {"acme", "acme-2", "long"} \X {2, 3} |->
                 p[1] \o (IF p[2] = 2 THEN "-2" ELSE "-3")]
MCSlug == Range(MCSlugify) \cup Range(MCNumbered)
MCValid == MCSlug \ {"long-2", "long-3"}
=============================================================================
