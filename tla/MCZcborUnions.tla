--------------------------- MODULE MCZcborUnions ---------------------------
(* ZcborUnions with the constants of MCZcborBackup. *)
EXTENDS MCZcborBackup, ZcborUnions

WhatIsRecorded == << WhatIsRead, starts >>

=============================================================================
