----------------------------- MODULE MCTestContext -----------------------------
(* TestContext on small instances: two nodes, and two contexts that share    *)
(* the chain.                                                                *)
EXTENDS TestContext

CONSTANTS n1, n2

MCNodes == {n1, n2}

================================================================================
