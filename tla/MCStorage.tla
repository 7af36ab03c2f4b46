----------------------------- MODULE MCStorage -----------------------------
(* Small instances of Storage for TLC.                                     *)
EXTENDS Storage, LabelText, TLC

CONSTANTS one, two, sub, stale

MCName == {one, two, sub}
MCByte == {0, 1, stale}

A  == <<one>>
B  == <<two>>
D  == <<sub>>
DA == <<sub, one>>
DB == <<sub, two>>

MCPath   == {Root, A, B, D, DA}
WidePath == MCPath \cup {DB}

\* Labels long enough for every path.
WholeLabel(call, p) == p

\* The longest name of a directory with which "mknod" and "write" of a file
\* in it still fit their label.
MCSpell ==
    (one :> <<"o">>) @@ (two :> <<"t">>) @@ (sub :> [k \in 1 .. 14 |-> "s"])

Touch(p)         == [call |-> "mknod", path |-> p, mode |-> "file"]
Mkdir(p)         == [call |-> "mknod", path |-> p, mode |-> "dir"]
Put(p, at, byte) == [call |-> "write", path |-> p, off |-> at, bytes |-> byte]
Cut(p, n)        == [call |-> "truncate", path |-> p, size |-> n]
Ln(p, q)         == [call |-> "link", path |-> p, to |-> q]
Mv(p, q)         == [call |-> "rename", path |-> p, to |-> q]
Rm(p)            == [call |-> "unlink", path |-> p]
Utime(p)         == [call |-> "set", path |-> p]
Mod(p, m)        == [call |-> "chmod", path |-> p, mode |-> m]

PlainCalls ==
    {Touch(A), Mkdir(D), Touch(DA), Put(A, 1, <<1>>), Put(DA, 0, <<1>>), Cut(A, 1),
     Ln(A, B), Mod(D, "dir")}

RoughCalls ==
    {Touch(A), Mkdir(D), Touch(DA), Put(A, 0, <<1>>), Put(DA, 0, <<1>>),
     Rm(A), Rm(DA), Mod(D, "odd"), Mod(D, "dir")}

NameCalls ==
    {Touch(A), Mkdir(D), Touch(DA), Put(A, 0, <<1>>), Put(B, 0, <<0>>), Ln(A, B), Ln(B, A),
     Rm(A), Rm(B), Mv(A, B), Mv(B, A), Mv(DA, DB), Mv(DB, DA)}

TimeCalls ==
    {Touch(A), Mkdir(D), Touch(DA), Put(A, 0, <<1>>), Utime(A), Utime(DA)}

\* Two files whose versions a rollback brings back.
BackCalls == {Touch(A), Touch(B), Put(A, 0, <<1>>), Put(B, 0, <<1>>)}

\* Links whose two names are in different directories.
AcrossCalls == {Touch(A), Mkdir(D), Ln(A, DA)}

\* A rename onto a file that is already there.
OverCalls == {Touch(A), Touch(B), Put(A, 0, <<1>>), Mv(A, B)}
=============================================================================
