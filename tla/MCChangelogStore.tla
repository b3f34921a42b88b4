-------------------------- MODULE MCChangelogStore --------------------------
(***************************************************************************)
(* The changelog store: CI by itself, with two merges, two dispatches and  *)
(* a mishap; and beside it one script on a checkout: those of the setup    *)
(* with two merges, or with one and a mishap, and the others with one      *)
(* merge and a dispatch.                                                   *)
(***************************************************************************)
EXTENDS ChangelogStore

OneOf(kinds) == [left |-> 1, kinds |-> kinds]
NoLocal == [left |-> 0, kinds |-> {}]
Setup == {"backfill", "baseline"}

Budget(n, m, d, l) == [merges |-> n, mishaps |-> m, dispatches |-> d, locals |-> l]

MCBudgets ==
    {Budget(2, 1, 2, NoLocal), Budget(2, 0, 0, OneOf(Setup)),
     Budget(1, 1, 0, OneOf(Setup)), Budget(1, 0, 1, OneOf(Kinds \ Setup))}

=============================================================================
