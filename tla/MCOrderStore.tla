----------------------------- MODULE MCOrderStore -----------------------------
(* A small instance of OrderStore for TLC. *)
EXTENDS OrderStore

(* Two racing payments of version 1, a shipment of version 2 and a transition *)
(* the life cycle forbids.                                                    *)
MCWanted == {<<1, "paid">>, <<1, "cancelled">>, <<2, "shipped">>, <<1, "shipped">>}
=============================================================================
