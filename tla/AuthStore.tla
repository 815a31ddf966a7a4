----------------------------- MODULE AuthStore -----------------------------
(***************************************************************************)
(* auth.json (web/auth.py): the password hash, the key that signs session  *)
(* cookies, and the stream tokens.  Threadpool threads read the file,      *)
(* change what they read and write it back, with no lock: open truncates,  *)
(* and the text, smaller than a write buffer, is written when the file is  *)
(* closed, from the beginning.  A longer text under a shorter one leaves   *)
(* its end.  Whoever reads an empty file or such a mixture gets an         *)
(* exception from json.loads, and its request is answered 500.             *)
(***************************************************************************)
EXTENDS Naturals, FiniteSets

CONSTANTS
    Requests        \* handlers that can be running at once

VARIABLES
    file,           \* auth.json
    data,           \* data[r]: the mapping r has read, and is changing
    keys,           \* history: keys drawn so far
    tokens          \* history: tokens drawn so far

\* Key 0 is none.  Hashing is not modelled: a token is its number.
Content == [password : BOOLEAN, key : Nat, tokens : SUBSET Nat]
Nothing == [password |-> FALSE, key |-> 0, tokens |-> {}]
Shape == {"absent", "empty", "mixed", "whole"}

AuthInit ==
    /\ file = [shape |-> "absent", holds |-> Nothing]
    /\ data = [r \in Requests |-> Nothing]
    /\ keys = 0 /\ tokens = 0

\* _read returns {} when there is no file.
Readable == file.shape \in {"absent", "whole"}
Read == file.holds

---------------------------------------------------------------------------
(* What the operations make of the mapping they read.                      *)

\* set_password and secret_key draw a key when there is none; or always.
FreshKey(d, key) == [d EXCEPT !.key = key]
WithKey(d, key) == IF d.key = 0 THEN [d EXCEPT !.key = key] ELSE d
SetPassword(d) == [WithKey(d, keys + 1) EXCEPT !.password = TRUE]
\* mint_stream_token and revoke_stream_token; or all but this one go.
Mint(d) == [d EXCEPT !.tokens = @ \cup {tokens + 1}]
RevokeOthers(d, t) == [d EXCEPT !.tokens = @ \cap {t}]
Revoke(d, t) == [d EXCEPT !.tokens = @ \ {t}]

---------------------------------------------------------------------------
(* _write.                                                                 *)

\* os.open(O_TRUNC)
Truncate(r) == file' = [shape |-> "empty", holds |-> Nothing]

\* f.close().  What another request wrote since the truncation is longer,
\* shorter, or, with another token under another label, either.
Whole(d) == [shape |-> "whole", holds |-> d]
Mixed == [shape |-> "mixed", holds |-> Nothing]
NoLonger(c, d) ==
    /\ c.tokens \subseteq d.tokens
    /\ c.password => d.password
    /\ c.key # 0 => d.key # 0
Write(r) ==
    LET there == file.holds
        d == data[r]
    IN  \/ /\ file.shape = "mixed" \/ NoLonger(there, d) \/ ~NoLonger(d, there)
           /\ file' = Whole(d)
        \/ /\ file.shape = "mixed" \/ ~NoLonger(there, d)
           /\ file' = Mixed
=============================================================================
