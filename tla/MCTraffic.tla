------------------------------ MODULE MCTraffic ------------------------------
(* A row of two cores, 1 and 2, between routers 0 and 3 of the DDRs; only that   *)
(* of the first is used.  Core 1 asks the DDR and sends more, the DDR sends     *)
(* data to both cores, and core 2 answers over the hubs.                     *)
EXTENDS Traffic, TLC
MCGroupOf   == [v \in Vcs |-> "g"]
MCGroupSize == [g \in Groups |-> 0]
MCSize  == [p \in Packets |-> CASE p = "ask" -> 1 [] p = "more" -> 3 [] OTHER -> 2]
MCTo    == [p \in Packets |-> CASE p = "data" -> {1, 2} [] p = "more" -> {2} [] OTHER -> {0}]
MCMakes == [n \in Nodes |-> CASE n = 1 -> <<"ask", "more">> [] n = 0 -> <<"data">> [] n = 2 -> <<"answer">>
                              [] OTHER -> << >>]
MCNeeds == [p \in Packets |-> CASE p = "data" -> {"ask"} [] p = "answer" -> {"data"} [] OTHER -> {}]
MCExpects == [n \in Nodes |-> CASE n = 1 -> {"data"} [] n = 0 -> {"ask", "answer"} [] n = 2 -> {"data", "more"}
                                [] OTHER -> {}]
MCFirstOut == [p \in Packets |-> IF p \in {"more", "data"} THEN 1 ELSE 0]

(* Settings that differ from others b in numbers i, names s and lists g, and in  *)
(* t, lists of lists.                                                      *)
But(b, i, s, g, t) ==
  [int |-> i @@ b.int, str |-> s @@ b.str, given |-> g @@ b.given, nested |-> t @@ b.nested,
   text |-> [f \in DOMAIN g |-> Conf!Text(g[f])] @@ [f \in DOMAIN t |-> Conf!Texts(t[f])] @@ b.text]
E0 == [x \in {} |-> 0]
Default == [int |-> Conf!Shipped.int, str |-> Conf!Shipped.str, text |-> Conf!Shipped.text, given |-> E0, nested |-> E0]
Live == But(Default,
  [classes |-> 2, num_vcs |-> 2, vc_buf_size |-> 1, buf_size |-> 4, packet_size |-> 3, k |-> 2, n |-> 2,
   Core_x |-> 2, Core_y |-> 1, DDR_num |-> 2],
  [topology |-> "fly", routing_function |-> "dest_tag"], E0, E0)
(* Settings that are only built.                                           *)
Odd(i, s, g, t) == But(Default, i @@ [sim_count |-> 0], s, g, t)
Ints(i) == Odd(i, E0, E0, E0)
Net(t, f) == Odd(E0, [topology |-> t, routing_function |-> f], E0, E0)
Policy3(p, i, g) == Odd([num_vcs |-> 3, vc_buf_size |-> 4] @@ i, [buffer_policy |-> p], g, E0)

Chosen == [
  plain |-> Live,
  class |-> But(Live, E0, [priority |-> "class"], E0, E0),
  age   |-> But(Live, [hold_switch_for_packet |-> 1], [priority |-> "age"], E0, E0),
  noq   |-> But(Live, [hold_switch_for_packet |-> 1, noq |-> 1, routing_delay |-> 0], E0, E0, E0),
  default |-> Ints(E0),
  torus |-> Net("torus", "dim_order"), tree |-> Net("tree4", "nca"), fat |-> Net("fattree", "anca"),
  quad |-> Net("qtree", "nca"), cmesh |-> Net("cmesh", "dor_no_express"), flat |-> Net("flatfly", "ugal"),
  dragonfly |-> Net("dragonflynew", "ugal"), any |-> Net("anynet", "min"), wrong |-> Net("mesh", "min"),
  hubs |-> Odd([m |-> 2], [topology |-> "wmesh"], E0, E0),
  tight |-> Odd([m |-> 2, vc_buf_size |-> 8], [topology |-> "wmesh"], E0, E0),
  event |-> Odd(E0, [router |-> "event"], E0, E0), chaos |-> Odd(E0, [router |-> "chaos"], E0, E0),
  on_off |-> Odd([burst_r1 |-> 5, burst_beta |-> -10], [injection_process |-> "on_off"], E0, E0),
  burst  |-> Odd([burst_r1 |-> 5], [injection_process |-> "on_off"], E0, E0),
  age_like |-> Odd(E0, [priority |-> "oldest"], E0, E0), batch |-> Odd([sim_power |-> 1], [sim_type |-> "batch"], E0, E0),
  few   |-> Ints([buf_size |-> 7]), some |-> Ints([buf_size |-> 100]), none |-> Ints([vc_buf_size |-> 0]),
  failed |-> Ints([link_failures |-> 1, k |-> 3, Core_x |-> 1, Core_y |-> 2]),
  ddr3  |-> Ints([DDR_num |-> 3]), ddr8 |-> Ints([DDR_num |-> 8]), large |-> Ints([Core_x |-> 9]),
  quick |-> Ints([routing_delay |-> 0, noq |-> 1]), late |-> Ints([noq |-> 1]), nocast |-> Ints([num_mcast_dests |-> 0]),
  specul |-> Odd([speculative |-> 1], [vc_allocator |-> "piggyback"], E0, E0),
  piggy |-> Odd(E0, [vc_allocator |-> "piggyback"], E0, E0), unnamed |-> Ints([network |-> 13]), select |-> Odd(E0, [sw_allocator |-> "best"], E0, E0),
  shared |-> Policy3("shared", E0, E0), halves |-> Policy3("limited", [private_bufs |-> 2], E0),
  one |-> Policy3("dynamic", [private_bufs |-> 0], E0),
  parts |-> Policy3("shifting", [private_bufs |-> 2],
              [private_buf_size |-> <<2, 1>>, private_buf_start_vc |-> <<0, 1>>, private_buf_end_vc |-> <<0, 2>>]),
  overlap |-> Policy3("feedback", [private_bufs |-> 2], [private_buf_start_vc |-> <<0, 1>>, private_buf_end_vc |-> <<1, 2>>]),
  greedy |-> Policy3("simplefeedback", [private_bufs |-> 2], [private_buf_size |-> <<10>>]),
  unknown |-> Policy3("common", E0, E0),
  classes |-> Odd([classes |-> 3], E0, [injection_rate |-> <<1, 2>>, class_priority |-> <<3, 2, 1, 0>>],
                  [packet_size |-> << <<1, 2>>, <<4>> >>, packet_size_rate |-> << <<3, 1>>, <<2>> >>]),
  heavy |-> Odd([classes |-> 2], E0, [injection_rate |-> <<1, 12>>], E0),
  odds  |-> Odd(E0, E0, E0, [packet_size |-> << <<1, 2, 3>> >>, packet_size_rate |-> << <<1, -1>> >>]),
  reads |-> Odd([classes |-> 2, read_reply_size |-> 40], E0, [use_read_write |-> <<1, 0>>, write_reply_size |-> <<2, 3>>], E0)]
(* Buffers of each policy over numbers of VCs, slots and private parts.        *)
Swept == {Odd([num_vcs |-> v, vc_buf_size |-> 4, buf_size |-> b, private_bufs |-> n], [buffer_policy |-> p], E0, E0) :
            p \in {"private", "shared"}, v \in {2, 3, 5}, b \in {-1, 4, 7, 12}, n \in {-1, 0, 2}}
MCOptions == Range(Chosen) \cup Swept
=============================================================================
