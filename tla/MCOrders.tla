------------------------------ MODULE MCOrders ------------------------------
(* An instance of Orders: a plain order of two items, one with a coupon,   *)
(* one with an unknown code or product, one item too many, a quantity out  *)
(* of range, nothing ordered, and keys that may not order.                 *)
EXTENDS Orders

MCItem(p, q) == [product |-> p, quantity |-> q]
MCRequest(key, items, coupon) == [key |-> key, items |-> items, coupon |-> coupon]
One == <<MCItem("p1", 1)>>

MCRequests == {MCRequest("scoped", <<MCItem("p1", 1), MCItem("p1", 2)>>, NoCoupon),
               MCRequest("scoped", One, "A"),
               MCRequest("scoped", One, "Z"),
               MCRequest("scoped", <<MCItem("p9", 1)>>, "A"),
               MCRequest("scoped", <<MCItem("p1", 3)>>, "A"),
               MCRequest("scoped", One \o One \o One, NoCoupon),
               MCRequest("scoped", <<>>, NoCoupon),
               MCRequest("unscoped", One, NoCoupon),
               MCRequest("unknown", One, NoCoupon)}
=============================================================================
