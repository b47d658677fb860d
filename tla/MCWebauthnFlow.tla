--------------------------- MODULE MCWebauthnFlow ---------------------------
(* Two credentials whose integers have unequal halves, a transaction that  *)
(* is real or simulated, and a signature of each.                          *)
EXTENDS WebauthnFlow

CONSTANTS c1, c2, e1, q1, q2

MCPublicKey == [c \in {c1, c2} |-> IF c = c1 THEN <<<<1, 2, 0, 1>>, <<0, 0, 2, 1>>>>
                                             ELSE <<<<2, 0, 1, 1>>, <<1, 1, 0, 2>>>>]

\* A relying party with a port: its name holds a colon.
MCOrigin == <<<<"localhost">>, Colon, <<"8080">>>>
\* A browser that leaves white space; in memory there is none.
MCGaps == {<<Space>>}
MCScalars == 1 .. 79
MCOnCurve == {true_point(c1), true_point(c2)}

texts == {json(CliendData(transaction_hash(e, b), MCOrigin), gap) :
             e \in {e1}, b \in BOOLEAN, gap \in MCGaps \union {<<>>}}

data(hash) == data_bytes([rp_id_hash |-> hash, flags |-> {"UP", "UV"}, sign_count |-> 0])

MCP256Signed ==
    {<<<<data(hash), client_data>>, true_point(c), IF c = c1 THEN <<5, 64>> ELSE <<33, 12>>>> :
        hash \in {"zeros", "hash"}, client_data \in texts, c \in {c1, c2}}
=============================================================================
