----------------------------- MODULE MCDelivery -----------------------------
(* Instances of Delivery for TLC.                                          *)
EXTENDS Delivery, TLC

(* m1 and m2 are one request submitted twice; m3 repeats their key under   *)
(* another run id, m4 their run id under another key, m5 is not a request. *)
CONSTANTS w1, w2, m1, m2, m3, m4, m5, r1, r2, k1, k2, u1

Request == [run |-> r1, key |-> k1, url |-> u1]

Symmetry == Permutations(Worker)

MCBody == [m \in Message |->
  CASE m \in {m1, m2} -> Request
    [] m = m3 -> [Request EXCEPT !.run = r2]
    [] m = m4 -> [Request EXCEPT !.key = k2]
    [] OTHER -> Malformed]

=============================================================================
