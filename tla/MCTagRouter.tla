----------------------------- MODULE MCTagRouter -----------------------------
(* Three routers in a row, a host at each.  A link that packs packets joins   *)
(* routers 1 and 2; a tunnel one way and GSE the other join routers 2 and 3.   *)
(* Port 1 is the port of the host.                                             *)
EXTENDS TagRouter

MCRouterConf == <<<<1, 2, 3>>, <<1, 2>>, <<3, 2, 1>>>>

Line(l, n, p, t) == [local |-> l, next |-> n, port |-> p, type |-> t]
MCMappingConf ==
  <<Line(1, 1, 1, "fwd_pdu"), Line(1, 2, 0, "m_rtn_pdu"),
    Line(2, 1, 0, "m_fwd_pdu"), Line(2, 3, 2, "fwd_pdu"),
    Line(3, 3, 1, "rtn_pdu"), Line(3, 2, 0, "fwd_bb")>>

\* Router 2 has a host too, but no table that ends at its dst_id.
MCDstId == [r \in Router |-> CASE r = 1 -> 3 [] r = 2 -> 9 [] r = 3 -> 1]
MCHostPort == [r \in Router |-> 1]
MCCable ==
  [x \in Router \X Port |->
     CASE x = <<1, 0>> -> <<2, 0>> [] x = <<2, 0>> -> <<1, 0>>
       [] x = <<2, 2>> -> <<3, 0>> [] x = <<3, 0>> -> <<2, 2>>
       [] OTHER -> "host"]
=============================================================================
