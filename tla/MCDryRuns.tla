----------------------------- MODULE MCDryRuns -----------------------------
(* A dry run whose modelled days are yet to come, beside the nightly accrual. *)
EXTENDS DryRuns

CONSTANT r1

Ahead == [runs |-> {r1}, last |-> 3, from |-> {1, 3}, members |-> 1, months |-> 1, deposits |-> 1,
          nights |-> TRUE, digests |-> FALSE, dies |-> FALSE]
MCScenes == {Ahead}
============================================================================
