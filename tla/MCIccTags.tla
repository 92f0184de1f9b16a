------------------------------ MODULE MCIccTags ------------------------------
EXTENDS IccTags, TLC

CONSTANTS o1, o2, o3, o4

\* A display profile of another maker: two tags at one place, the white point
\* in 'chad' and D50 in its own tag, no 'arts'.
MadeElsewhere ==
    [ok |-> TRUE,
     tab |-> ("red" :> "red") @@ ("green" :> "red") @@ ("wtpt" :> "wtpt") @@ ("chad" :> "chad"),
     data |-> ("red" :> "x") @@ ("wtpt" :> "D50") @@ ("chad" :> "w")]
=============================================================================
