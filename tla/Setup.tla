-------------------------------- MODULE Setup --------------------------------
(***************************************************************************)
(* How a run is set up: the options with their defaults (booksim_config.cpp), *)
(* how they are looked up and lists of them cut up (config_utils.cpp), and     *)
(* what the constructors make of them.  Settings c are the options by type:    *)
(* c.int and c.str by name, and c.text, the lists as they are written.  What   *)
(* is only counted or displayed is left out; rates are in tenths.             *)
(***************************************************************************)
EXTENDS Integers, SequencesExt, FiniteSetsExt

Fields(i, f, s) == [int |-> i, float |-> f, str |-> s]
All(A) == Fields(UNION {a.int : a \in A}, UNION {a.float : a \in A}, UNION {a.str : a \in A})

NetworkFields == Fields(
  {"subnets", "network", "batch", "method", "arch", "stride", "DDR_lanes", "DDR_bw", "core_fq", "DDR_num",
   "Core_num", "Core_x", "Core_y", "interleave", "num_obuf", "analytical_width", "flit_width",
   "sending_granularity", "sending_granularity_lowerbound", "k", "n", "c", "m", "use_noc_latency",
   "x", "y", "xr", "yr", "link_failures", "fail_seed", "in_ports", "out_ports"}, {},
  {"channel_file", "topology", "routing_function", "fail_seed"})

RouterFields == Fields(
  {"output_delay", "credit_delay", "output_buffer_size", "noq", "speculative", "spec_check_elig",
   "spec_check_cred", "spec_mask_by_reqs", "received_queue_size", "num_vcs", "vc_buf_size", "buf_size",
   "private_bufs", "private_buf_size", "private_buf_start_vc", "private_buf_end_vc", "max_held_slots",
   "feedback_aging_scale", "feedback_offset", "wait_for_tail_credit", "vc_busy_when_full",
   "vc_prioritize_empty", "vc_priority_donation", "vc_shuffle_requests", "hold_switch_for_packet",
   "input_speedup", "output_speedup", "routing_delay", "vc_alloc_delay", "sw_alloc_delay",
   "st_prepare_delay", "st_final_delay", "vct", "alloc_iters"}, {"internal_speedup"},
  {"router", "spec_sw_allocator", "buffer_policy", "private_buf_size", "private_buf_start_vc",
   "private_buf_end_vc", "vc_allocator", "sw_allocator", "arb_type"})

Ranges == {"read_request_begin_vc", "read_request_end_vc", "write_request_begin_vc", "write_request_end_vc",
           "read_reply_begin_vc", "read_reply_end_vc", "write_reply_begin_vc", "write_reply_end_vc"}
Subnets == {"read_request_subnet", "read_reply_subnet", "write_request_subnet", "write_reply_subnet"}
Sizes   == {"read_request_size", "read_reply_size", "write_request_size", "write_reply_size"}
Bursts  == {"burst_alpha", "burst_beta", "burst_r1"}
TrafficFields == Fields(
  Ranges \cup Subnets \cup Sizes \cup
    {"classes", "class_priority", "perm_seed", "mcast_percent", "mcast_switch", "num_mcast_dests",
     "injection_rate_uses_flits", "packet_size", "packet_size_rate", "batch_size", "batch_count",
     "max_outstanding_requests", "use_read_write"},
  Bursts \cup {"injection_rate", "mcast_injection_rate", "write_fraction"},
  Sizes \cup {"traffic", "class_priority", "perm_seed", "injection_rate", "mcast_injection_rate",
     "mcast_percent", "mcast_switch", "num_mcast_dests", "packet_size", "packet_size_rate",
     "injection_process", "priority", "use_read_write", "write_fraction"})

Thresholds == {"latency_thres", "warmup_thres", "acc_warmup_thres", "stopping_thres", "acc_stopping_thres"}
SimulationFields == Fields(
  {"warmup_periods", "sample_period", "max_samples", "measure_stats", "pair_stats", "sim_count",
   "include_queuing", "seed", "print_activity", "print_csv_results", "deadlock_warn_timeout",
   "viewer_trace", "watch_deadlock", "watch_all_cores", "sim_power", "channel_width", "channel_sweep"},
  Thresholds,
  Thresholds \cup {"sim_type", "measure_stats", "seed", "watch_file", "watch_packets", "watch_flits",
     "watch_transfer_id", "watch_routers", "watch_cores", "watch_ddrs", "watch_transactions", "watch_out",
     "stats_out", "sent_packets_out", "power_output_file", "tech_file", "network_file"})

Declared == All({NetworkFields, RouterFields, TrafficFields, SimulationFields})

PowerFields == Fields(
  {"H_INVD2", "W_INVD2", "H_DFQD1", "W_DFQD1", "H_ND2D1", "W_ND2D1", "H_SRAM", "W_SRAM"},
  {"Vdd", "R", "IoffSRAM", "IoffP", "IoffN", "Cg_pwr", "Cd_pwr", "Cgdl", "Cg", "Cd", "LAMBDA",
   "MetalPitch", "Rw", "Cw_gnd", "Cw_cpl", "wire_length"}, {})

(* The defaults of what decides something below.                             *)
Shipped == [
  int |-> [classes |-> 1, num_vcs |-> 24, vc_buf_size |-> 34, buf_size |-> -1, packet_size |-> 16,
    packet_size_rate |-> 1, use_read_write |-> 0, read_request_size |-> 1, read_reply_size |-> 1,
    write_request_size |-> 1, write_reply_size |-> 1, class_priority |-> 0, private_bufs |-> -1,
    private_buf_size |-> 1, private_buf_start_vc |-> -1, private_buf_end_vc |-> -1, routing_delay |-> 1,
    vc_alloc_delay |-> 1, sw_alloc_delay |-> 1, speculative |-> 0, noq |-> 0, hold_switch_for_packet |-> 0,
    mcast_switch |-> 1, mcast_percent |-> 1, num_mcast_dests |-> 3, k |-> 6, n |-> 2, m |-> 0,
    received_queue_size |-> 16, link_failures |-> 0, Core_x |-> 4, Core_y |-> 4, DDR_num |-> 4,
    injection_rate |-> 1, burst_alpha |-> 5, burst_beta |-> 5, burst_r1 |-> -10, sim_count |-> 1, network |-> 2, sim_power |-> 0],
  str |-> [topology |-> "mesh", routing_function |-> "dor", router |-> "iq", buffer_policy |-> "private",
    vc_allocator |-> "islip", sw_allocator |-> "islip", spec_sw_allocator |-> "prio", priority |-> "none",
    injection_process |-> "bernoulli", sim_type |-> "latency"],
  text |-> [f \in Sizes \cup {"packet_size", "packet_size_rate", "use_read_write", "class_priority", "injection_rate",
    "private_buf_size", "private_buf_start_vc", "private_buf_end_vc"} |-> << >>]]

-----------------------------------------------------------------------------
(* The text of a list is its symbols: numbers, braces and commas.  A list is   *)
(* cut at the commas outside of inner braces; an empty element does not count, *)
(* and what follows the last brace is dropped.  A text without braces is a     *)
(* list of one.                                                            *)
Num(n)  == [sym |-> "n", val |-> n]
Sym(s)  == [sym |-> s, val |-> 0]

(* mutant: a comma in an inner list cuts the outer one.                      *)
CutInner(t, ch) ==
  IF ch.sym = "n" THEN [t EXCEPT !.token = Append(@, ch)]
  ELSE [t EXCEPT !.values = IF t.token = << >> THEN @ ELSE Append(@, t.token), !.token = << >>]
Cut(t, ch) ==
  CASE ch.sym = "{" -> [t EXCEPT !.nested = @ + 1, !.token = Append(@, ch)]
    [] ch.sym = "}" /\ t.nested > 0 -> [t EXCEPT !.nested = @ - 1, !.token = Append(@, ch)]
    [] ch.sym \in {",", "}"} /\ t.nested = 0 ->
         [t EXCEPT !.values = IF t.token = << >> THEN @ ELSE Append(@, t.token), !.token = << >>]
    [] ch.sym = "n" \/ (ch.sym = "," /\ t.nested > 0) -> [t EXCEPT !.token = Append(@, ch)]

Tokens(text) ==
  IF text = << >> \/ text[1].sym # "{" THEN IF text = << >> THEN << >> ELSE <<text>>
  ELSE FoldLeft(Cut, [values |-> << >>, token |-> << >>, nested |-> 0], Tail(text)).values

(* atoi of each: 0 if it does not begin with a number.                       *)
Ints(text) == LET ts == Tokens(text) IN [i \in DOMAIN ts |-> ts[i][1].val]

Resized(s, n, x) == [i \in 1 .. n |-> IF i <= Len(s) THEN s[i] ELSE x]

(* A list of one value for each class, or the only value; the last one goes on.  *)
OrOne(c, f) == IF c.text[f] = << >> THEN <<c.int[f]>> ELSE Ints(c.text[f])
PerClass(c, f) == Resized(OrOne(c, f), c.int["classes"], Last(OrOne(c, f)))

(* The sizes of the packets of each class, with the odds of each: a list for each *)
(* class in a list.  Requests and replies have sizes of their own.            *)
Lists(text) == LET ts == Tokens(text) IN [i \in DOMAIN ts |-> Ints(ts[i])]
SizesPerClass(c) ==
  LET all == IF c.text["packet_size"] = << >> THEN << <<c.int["packet_size"]>> >> ELSE Lists(c.text["packet_size"])
  IN  Resized(all, c.int["classes"], Last(all))
RatesPerClass(c) ==
  LET sizes == SizesPerClass(c)
      given == Lists(c.text["packet_size_rate"])
      rates(k) == IF given = << >> THEN <<c.int["packet_size_rate"]>>
                  ELSE Resized(given, c.int["classes"], Last(given))[k]
  IN  [k \in DOMAIN sizes |-> Resized(rates(k), Len(sizes[k]), Last(rates(k)))]
Total(s) == FoldLeft(LAMBDA a, b : a + b, 0, s)
PacketSizes(c) ==
  [k \in 1 .. c.int["classes"] |->
     IF PerClass(c, "use_read_write")[k] # 0
     THEN [sizes |-> <<MapThenSumSet(LAMBDA f : PerClass(c, f)[k], Sizes) \div 2>>, rates |-> <<1>>, max_val |-> 0]
     ELSE [sizes |-> SizesPerClass(c)[k], rates |-> RatesPerClass(c)[k], max_val |-> Total(RatesPerClass(c)[k]) - 1]]

-----------------------------------------------------------------------------
(* The slots of the buffer of a router, or of a hub, which is to hold a packet   *)
(* for each VC, and what the private policy lets the sender use of each VC.     *)
LargestPacket(c) ==
  IF c.int["use_read_write"] = 0 THEN c.int["packet_size"]
  ELSE Max({c.int["packet_size"], c.int["read_reply_size"], c.int["write_reply_size"]})
AllSlots(c) == IF c.int["buf_size"] < 0 THEN c.int["num_vcs"] * c.int["vc_buf_size"] ELSE c.int["buf_size"]
BufferSize(c, is_hub) == IF is_hub THEN c.int["num_vcs"] * LargestPacket(c) ELSE AllSlots(c)
PrivateUp(c) == (c.int["buf_size"] + c.int["num_vcs"] - 1) \div c.int["num_vcs"]      \* mutant: rounded up
PrivateSize(c) ==
  LET part == c.int["buf_size"] \div c.int["num_vcs"] IN IF part <= 0 THEN c.int["vc_buf_size"] ELSE part

(* The private parts of a shared buffer: how many, their sizes, and the VCs from  *)
(* a first to a last that each is for; the rest is for all.                    *)
Parts(c) == CASE c.int["private_bufs"] < 0 -> c.int["num_vcs"]
              [] c.int["private_bufs"] = 0 -> 1
              [] OTHER -> c.int["private_bufs"]
Given(c, f) == c.text[f] # << >> \/ c.int[f] >= 0
PartSizes(c) ==
  LET sizes == IF Given(c, "private_buf_size") THEN OrOne(c, "private_buf_size") ELSE <<AllSlots(c) \div Parts(c)>>
  IN  Resized(sizes, Parts(c), Last(sizes))
First(c) == IF Given(c, "private_buf_start_vc") THEN OrOne(c, "private_buf_start_vc")
            ELSE [i \in 1 .. Parts(c) |-> ((i - 1) * c.int["num_vcs"]) \div Parts(c)]
Final(c) == IF Given(c, "private_buf_end_vc") THEN OrOne(c, "private_buf_end_vc")
            ELSE [i \in 1 .. Parts(c) |-> (i * c.int["num_vcs"]) \div Parts(c) - 1]
PartsOf(c, vc) == {i \in 1 .. Parts(c) : vc \in First(c)[i] .. Final(c)[i]}
SharedByAll(c) == AllSlots(c) - Total(PartSizes(c))

-----------------------------------------------------------------------------
(* Cores stand in rows between two routers of DDRs, whatever the network is; the *)
(* routers of the left, then of the right, are dealt to the DDRs in order.     *)
Columns(c) == c.int["Core_x"] + 2
Rows(c)    == 0 .. c.int["Core_y"] - 1
DdrRouters(c) == [i \in 1 .. 2 * c.int["Core_y"] |->
                    IF i <= c.int["Core_y"] THEN (i - 1) * Columns(c)
                    ELSE (i - c.int["Core_y"]) * Columns(c) - 1]
DdrOf(c) == [i \in DOMAIN DdrRouters(c) |-> (i - 1) \div (Len(DdrRouters(c)) \div c.int["DDR_num"])]
CoreIds(c) == {i * Columns(c) + k : i \in Rows(c), k \in 1 .. c.int["Core_x"]}
Nodes(c) == 0 .. c.int["k"] ^ c.int["n"] - 1

-----------------------------------------------------------------------------
(* The routing functions of each topology, under the names options give them.   *)
Functions(topology) ==
  CASE topology = "mesh" -> {"dor", "xy_yx", "adaptive_xy_yx", "dim_order", "dim_order_ni", "dim_order_pni", "romm",
                             "romm_ni", "min_adapt", "planar_adapt", "valiant", "chaos"}
    [] topology = "torus" -> {"dim_order", "dim_order_ni", "dim_order_bal", "min_adapt", "valiant", "valiant_ni", "chaos"}
    [] topology = "wmesh" -> {"dor"}
    [] topology = "fly" -> {"dest_tag"}
    [] topology \in {"fattree", "tree4"} -> {"nca", "anca"}
    [] topology = "qtree" -> {"nca"}
    [] topology = "cmesh" -> {"dor", "dor_no_express", "xy_yx", "xy_yx_no_express"}
    [] topology = "flatfly" -> {"ran_min", "adaptive_xyyx", "xyyx", "valiant", "ugal", "ugal_pni", "ugal_xyyx"}
    [] topology = "dragonflynew" -> {"min", "ugal"}
    [] topology = "anynet" -> {"min"}
    [] OTHER -> {}
Registered(c) == c.str["routing_function"] \in Functions(c.str["topology"])

(* A link is to fail at a node inside, in the direction of one that has failed    *)
(* already or lies at the edge: the search begins at node j and channel d.  What   *)
(* it finds is in a variable of its own, so that no node is ever found.         *)
Edge(c, node) == \E d \in 0 .. c.int["n"] - 1 : (node \div c.int["k"] ^ d) % c.int["k"] \in {0, c.int["k"] - 1}
RightNode(c, node, d) ==
  LET step == c.int["k"] ^ d
  IN  IF (node \div step) % c.int["k"] = c.int["k"] - 1 THEN node - (c.int["k"] - 1) * step ELSE node + step
Available(c, node, d) ==
  ~Edge(c, node) /\ \E i \in 0 .. 2 * c.int["n"] - 1 :
                      Edge(c, RightNode(c, node, (((i + d) % 2) * c.int["n"]) \div 2))
Fault(c, j, d) ==
  LET size  == c.int["k"] ^ c.int["n"]
      found == {t \in 0 .. size - 1 : Available(c, (j + t) % size, d)}
  IN  [tries |-> IF found = {} THEN size ELSE Min(found) + 1, node |-> -1]
NetworkRefused(c) ==
  \/ Functions(c.str["topology"]) = {}
  \/ /\ c.int["link_failures"] > 0
     /\ c.str["topology"] \in {"mesh", "torus", "wmesh"} =>
          \A j \in Nodes(c), d \in 0 .. 2 * c.int["n"] - 1 :
            Fault(c, j, d).tries = c.int["k"] ^ c.int["n"] \/ Fault(c, j, d).node = -1

(* What is an error when a router or hub is built; its outputs, of the networks  *)
(* with as many at each router.                                            *)
RouterOutputs(c) == IF c.str["topology"] = "fly" THEN c.int["k"] ELSE 2 * c.int["n"] + 1
Allocators == {"max_size", "pim", "islip", "loa", "wavefront", "rr_wavefront", "select",
               "separable_input_first", "separable_output_first"}
RouterRefused(c) ==
  \/ c.str["router"] \notin {"iq", "event", "chaos"} \/ ~Registered(c)
  \/ /\ c.str["router"] = "iq" \/ c.int["m"] > 0
     /\ \/ c.int["vc_alloc_delay"] = 0 \/ c.int["sw_alloc_delay"] = 0
        \/ c.str["vc_allocator"] \notin Allocators /\ ~(c.str["vc_allocator"] = "piggyback" /\ c.int["speculative"] > 0)
        \/ c.str["sw_allocator"] \notin Allocators
        \/ c.int["speculative"] > 0 /\ c.str["spec_sw_allocator"] \notin Allocators \cup {"prio"}
        \/ c.int["noq"] > 0 /\ (c.int["routing_delay"] # 0 \/ c.int["num_vcs"] < RouterOutputs(c))

(* An unknown policy is used as a null pointer.                               *)
BufferRefused(c) ==
  LET vcs == 0 .. c.int["num_vcs"] - 1 IN
  CASE c.str["buffer_policy"] = "private" -> PrivateSize(c) <= 0
    [] c.str["buffer_policy"] \in {"shared", "limited", "dynamic", "shifting", "feedback", "simplefeedback"} ->
         \/ \E i \in 1 .. Parts(c) : First(c)[i] > Final(c)[i]
         \/ \E vc \in vcs : Cardinality(PartsOf(c, vc)) > 1
         \/ SharedByAll(c) < 0
    [] OTHER -> TRUE

(* Rates are from none to one packet a cycle; of a burst exactly enough is given  *)
(* to work out the rest.                                                    *)
InjectionRefused(c) ==
  LET given == {f \in Bursts : c.int[f] >= 0} IN
  \/ \E k \in 1 .. c.int["classes"] : PerClass(c, "injection_rate")[k] \notin 0 .. 10
  \/ c.str["injection_process"] \notin {"bernoulli", "on_off"}
  \/ c.str["injection_process"] = "on_off" /\ (Cardinality(given) # 2 \/ \E f \in given : c.int[f] > 10)

ManagerRefused(c) ==
  \/ c.str["sim_type"] \notin {"latency", "throughput", "batch"}
  \/ c.str["priority"] \notin {"class", "age", "network_age", "local_age", "queue_length", "hop_count", "sequence", "none"}
  \/ c.int["mcast_switch"] # 0 /\ (c.int["mcast_percent"] <= 0 \/ c.int["num_mcast_dests"] <= 0)
  \/ c.int["noq"] # 0 /\ c.int["routing_delay"] # 0
  \/ \E k \in 1 .. c.int["classes"] : \E i \in DOMAIN RatesPerClass(c)[k] : RatesPerClass(c)[k][i] < 0
  \/ c.int["network"] \notin 0 .. 12
  \/ Len(DdrRouters(c)) % c.int["DDR_num"] # 0

Refused(c) == NetworkRefused(c) \/ RouterRefused(c) \/ BufferRefused(c) \/ InjectionRefused(c) \/ ManagerRefused(c)

-----------------------------------------------------------------------------
(* What the constructors look up, class by class.                            *)
MainReads == Fields({"subnets", "sim_power", "print_activity", "viewer_trace", "m", "mcast_percent",
                     "packet_size", "num_vcs"} \cup Ranges, {}, {"watch_out"})
TopologyReads(c) ==
  CASE c.str["topology"] \in {"mesh", "torus"} -> Fields({"k", "n", "use_noc_latency", "fail_seed"}, {}, {"fail_seed"})
    [] c.str["topology"] = "wmesh" ->
         Fields({"k", "n", "m", "received_queue_size", "use_noc_latency", "fail_seed"}, {}, {"fail_seed"})
    [] c.str["topology"] \in {"cmesh", "flatfly"} -> Fields({"k", "n", "c", "x", "y", "xr", "yr", "use_noc_latency"}, {}, {})
    [] c.str["topology"] = "anynet" -> Fields({}, {}, {"network_file"})
    [] OTHER -> Fields({"k", "n"}, {}, {})
NetworkReads(c) == All({TopologyReads(c), Fields({"classes", "link_failures"}, {}, {"topology"})})

PolicyReads(c) ==
  LET p == c.str["buffer_policy"]
  IN  Fields((IF p = "private" THEN {} ELSE {"private_bufs"}) \cup
             (IF p \in {"limited", "dynamic", "shifting"} THEN {"max_held_slots"} ELSE {}) \cup
             (IF p \in {"feedback", "simplefeedback"} THEN {"feedback_aging_scale", "feedback_offset"} ELSE {}),
             {}, {"buffer_policy", "private_buf_size", "private_buf_start_vc", "private_buf_end_vc"})
VcReads == Fields({"routing_delay", "vc_priority_donation"}, {}, {"priority"})
BufferReads == Fields(
  {"num_vcs", "packet_size", "use_read_write", "read_reply_size", "write_reply_size", "buf_size", "vc_buf_size",
   "wait_for_tail_credit", "classes"}, {}, {})
PipelineReads == Fields(
  {"vc_busy_when_full", "vc_prioritize_empty", "vc_shuffle_requests", "speculative", "spec_check_elig",
   "spec_check_cred", "spec_mask_by_reqs", "routing_delay", "vc_alloc_delay", "sw_alloc_delay", "noq",
   "output_buffer_size", "hold_switch_for_packet"}, {}, {"vc_allocator", "sw_allocator", "spec_sw_allocator"})
IqReads  == Fields({}, {}, {"watch_flits", "watch_packets", "watch_routers"})
HubReads == Fields({"received_queue_size", "num_vcs"}, {}, {"routing_function", "topology"})
EventReads == Fields({"num_vcs", "vct", "vc_buf_size"}, {}, {"routing_function", "topology"})
ChaosReads == Fields({"vc_buf_size", "const_flits_per_packet", "multi_queue_size"}, {}, {"routing_function", "topology"})
RouterReads(c) == All({
  Fields({"st_prepare_delay", "st_final_delay", "credit_delay", "input_speedup", "output_speedup", "classes"},
         {"internal_speedup"}, {"router", "routing_function", "topology"}),
  IF c.int["m"] > 0 THEN All({HubReads, PipelineReads, PolicyReads(c), BufferReads, VcReads}) ELSE Fields({}, {}, {}),
  CASE c.str["router"] = "iq"    -> All({IqReads, PipelineReads, PolicyReads(c), BufferReads, VcReads})
    [] c.str["router"] = "event" -> All({EventReads, BufferReads, VcReads})
    [] c.str["router"] = "chaos" -> ChaosReads
    [] OTHER -> Fields({}, {}, {})})

ManagerReads == Fields(
  Subnets \cup Sizes \cup
    {"num_vcs", "subnets", "mcast_switch", "mcast_percent", "num_mcast_dests", "routing_delay", "noq", "classes",
     "use_read_write", "packet_size", "packet_size_rate", "injection_rate_uses_flits", "class_priority",
     "vc_alloc_delay", "sw_alloc_delay", "speculative", "hold_switch_for_packet", "k", "n", "xr", "perm_seed"},
  Bursts \cup {"write_fraction", "mcast_injection_rate", "injection_rate"},
  Sizes \cup
    {"sim_type", "priority", "routing_function", "topology", "use_read_write", "write_fraction", "packet_size",
     "packet_size_rate", "injection_rate", "traffic", "class_priority", "injection_process", "perm_seed"})
RunReads == Fields({"sim_count", "network", "Core_x", "Core_y", "batch", "DDR_bw", "analytical_width", "flit_width",
                    "method", "DDR_num"}, {}, {})
MeasureReads == Fields(
  {"seed", "sample_period", "max_samples", "warmup_periods", "measure_stats", "pair_stats", "include_queuing",
   "print_csv_results", "deadlock_warn_timeout", "watch_deadlock"}, Thresholds,
  Thresholds \cup {"seed", "sim_type", "measure_stats", "watch_file", "watch_flits", "watch_transfer_id",
    "watch_packets", "watch_routers", "stats_out"})
BatchReads(c) ==
  IF c.str["sim_type"] = "batch"
  THEN Fields({"max_outstanding_requests", "batch_size", "batch_count"}, {}, {"sent_packets_out"}) ELSE Fields({}, {}, {})
CoreReads == Fields(
  {"num_obuf", "packet_size", "flit_width", "interleave", "DDR_num", "sending_granularity",
   "sending_granularity_lowerbound", "watch_all_cores", "k"}, {},
  {"watch_cores", "watch_transfer_id"})
DdrReads == Fields({"DDR_num", "Core_num", "packet_size", "flit_width", "interleave", "DDR_bw", "watch_all_cores", "k"},
                   {}, {"watch_cores", "watch_transfer_id"})
PowerReads(c) ==
  IF c.int["sim_power"] = 0 THEN Fields({}, {}, {})
  ELSE Fields({"classes", "channel_width", "channel_sweep", "num_vcs", "vc_buf_size"}, {}, {"tech_file", "power_output_file"})
Reads(c) == All({MainReads, NetworkReads(c), RouterReads(c), ManagerReads, RunReads, MeasureReads, BatchReads(c), CoreReads,
                 DdrReads, PowerReads(c)})

(* What the power module looks up in a configuration of its own.              *)
TechReads(c) ==
  IF c.int["sim_power"] = 0 THEN Fields({}, {}, {})
  ELSE Fields({f \o d : f \in {"H_", "W_"}, d \in {"INVD2", "DFQD1", "ND2D1", "SRAM"}},
              {"wire_length", "MetalPitch", "LAMBDA", "R", "Vdd"} \cup {"Cw_" \o d : d \in {"cpl", "gnd"}} \cup {"Rw"} \cup
                {"C" \o d : d \in {"d", "g", "gdl", "d_pwr", "g_pwr"}} \cup {"Ioff" \o d : d \in {"N", "P", "SRAM"}}, {})

(* An option of no such name and type ends the program.                      *)
Missing(r, d) == (r.int \ d.int) \cup (r.float \ d.float) \cup (r.str \ d.str)
Unknown(c) == Missing(Reads(c), Declared) \cup Missing(TechReads(c), PowerFields)
Built(c) == ~Refused(c) /\ Unknown(c) = {}

-----------------------------------------------------------------------------
(* A list of numbers, or of lists, comes out of its text as it went in.       *)
Braced(s, T(_)) ==
  <<Sym("{")>> \o FoldLeft(LAMBDA t, x : IF t = << >> THEN T(x) ELSE t \o <<Sym(",")>> \o T(x), << >>, s) \o <<Sym("}")>>
Text(s)  == Braced(s, LAMBDA x : <<Num(x)>>)
Texts(s) == Braced(s, Text)

(* Every class has a value of each option, the one given for it or the last, and *)
(* its packet sizes have odds.                                              *)
ListsWhole(c) ==
  /\ \A f \in DOMAIN c.given :
       /\ c.text[f] = Text(c.given[f]) /\ Ints(c.text[f]) = c.given[f]
       /\ PerClass(c, f) = [k \in 1 .. c.int["classes"] |-> c.given[f][Min({k, Len(c.given[f])})]]
  /\ \A f \in DOMAIN c.nested : c.text[f] = Texts(c.nested[f]) /\ Lists(c.text[f]) = c.nested[f]
  /\ \A k \in 1 .. c.int["classes"] :
       LET p == PacketSizes(c)[k]
       IN  p.sizes # << >> /\ Len(p.sizes) = Len(p.rates)

(* The sender of a link never counts on more slots than the buffer at its end   *)
(* has, whichever the policy, unless there are fewer slots than VCs (the private *)
(* policy then goes by vc_buf_size); nor does that of a link to a hub if a VC is *)
(* not to have more than a packet.  Each VC is in one part of a shared buffer.   *)
CreditsFit(c) ==
  IF c.str["buffer_policy"] = "private"
  THEN /\ c.int["buf_size"] \notin 0 .. c.int["num_vcs"] - 1 =>
            c.int["num_vcs"] * PrivateSize(c) <= BufferSize(c, FALSE)
       /\ c.int["m"] > 0 /\ PrivateSize(c) <= LargestPacket(c) =>
            c.int["num_vcs"] * PrivateSize(c) <= BufferSize(c, TRUE)
  ELSE /\ \A vc \in 0 .. c.int["num_vcs"] - 1 : Cardinality(PartsOf(c, vc)) = 1
       /\ Total(PartSizes(c)) <= BufferSize(c, FALSE)

(* Cores and routers of DDRs are nodes of the network, each a different one and  *)
(* together the rows of the grid, if the grid is not larger than the network;    *)
(* each DDR has as many routers.                                            *)
PlacedApart(c) ==
  LET routers == DdrRouters(c)
      used    == CoreIds(c) \cup {routers[i] : i \in DOMAIN routers}
  IN  /\ used = 0 .. Columns(c) * c.int["Core_y"] - 1
      /\ Cardinality(used) = Cardinality(CoreIds(c)) + Len(routers)
      /\ Columns(c) * c.int["Core_y"] <= Cardinality(Nodes(c)) => used \subseteq Nodes(c)
      /\ \A d \in 0 .. c.int["DDR_num"] - 1 :
           Cardinality({i \in DOMAIN routers : DdrOf(c)[i] = d}) * c.int["DDR_num"] = Len(routers)

Fits(c) == ListsWhole(c) /\ CreditsFit(c) /\ PlacedApart(c)
=============================================================================
