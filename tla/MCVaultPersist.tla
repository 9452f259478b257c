--------------------------- MODULE MCVaultPersist ---------------------------
(* Instances of VaultPersist for TLC.                                      *)
EXTENDS VaultPersist, TLC

CONSTANTS w1, w2, r1, r2, a, b, t, u

(* A package of one run with the notes that are preserved; all drafts and  *)
(* reports of one text.                                                    *)
PackageOf(r, notes, text) ==
  [run |-> r, stale |-> FALSE,
   text |-> [n \in notes \cup {"manifest", "summary"} |-> text]]

Both  == PackageOf(r1, {a, b}, t)
(* The same drafts with a manifest of a later time.                        *)
Later == [Both EXCEPT !.text["manifest"] = u]
(* One note is preserved, and says something else.                         *)
Less  == PackageOf(r1, {b}, u)
(* Another run drafts the same note.                                       *)
Other == PackageOf(r2, {a}, t)
Stale == [Other EXCEPT !.stale = TRUE]

SomePackages == {Both, Later, Less, Other, Stale}
Symmetry == Permutations(Writers)

=============================================================================
