--------------------------- MODULE MCPassthrough ---------------------------
(* An instance of Passthrough for TLC. *)
EXTENDS Passthrough, TLC

CONSTANTS p1, p2, asset, home, mirror

\* A page of the named host, one of the default mirror, and a static asset.
McNamed == [p \in Path |-> IF p \in {p1, asset} THEN home ELSE None]

Doc(kind, size) == [kind |-> kind, size |-> size]

\* Bodies around a cap of 3 bytes that one body may take all of: two that fit
\* together, one that evicts another, one too big, and a challenge.
Mixed == {Doc("page", 1), Doc("suspect", 2), Doc("challenge", 1), Doc("page", 4)}
=============================================================================
