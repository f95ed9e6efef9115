------------------------------ MODULE MCRouter ------------------------------
(* Two inputs, two outputs and two VCs.  For the IQ router a packet for both    *)
(* outputs, one that may go to either, and one that follows the first on its   *)
(* input.  For the event-driven router two packets for one VC that follow     *)
(* each other, one for the same VC from the other input, and one beside it.    *)
(* For the chaos router packets for the ejection channel, more than   *)
(* the outputs and the multi-queue hold, and two for the other.              *)
EXTENDS Routers, TLC
MCGroupOf   == [v \in Vcs |-> "g"]
MCGroupSize == [g \in Groups |-> 0]
MCInOf    == [p \in Packets |-> IF p \in {"either", "cross", "here", "away"} THEN 1 ELSE 0]
MCVcsOf   == [p \in Packets |-> CASE p = "next" -> Vcs [] p = "aside" -> {1} [] OTHER -> {0}]
MCSize    == [p \in Packets |-> CASE p = "next" -> 1 [] p \in {"both", "cross", "aside"} -> 2 [] OTHER -> 3]
MCRouteOf == [p \in Packets |-> CASE p \in {"next", "cross", "long", "away"} -> <<{0}, {0}>>
                                  [] p = "aside" -> <<{1}, {1}>> [] p \in {"here", "home", "back"} -> <<{1}, {0}>>
                                  [] OTHER -> <<{0, 1}, Vcs>>]

Option(spec, piggyback, routing, vc, sw, flags) ==
  [router |-> "iq", packets |-> IF spec = "prio" THEN {"both", "either"} ELSE {"both", "either", "next"},
   spec |-> spec, piggyback |-> piggyback, routing |-> routing, vc |-> vc, sw |-> sw, obuf |-> IF "obuf" \in flags THEN 1 ELSE -1,
   hold |-> "hold" \in flags, busyfull |-> "busyfull" \in flags, elig |-> "elig" \in flags,
   cred |-> "cred" \in flags, mask |-> "mask" \in flags]
EventOption(packets) == [router |-> "event", packets |-> packets]
ChaosOption(queues, packets, eager) ==
  [router |-> "chaos", queues |-> queues, flits |-> 3, packets |-> packets, eager |-> eager]
MCOptions == {Option("no", FALSE, 1, 1, 1, {"obuf", "busyfull"}), Option("no", FALSE, 1, 1, 1, {}), Option("no", FALSE, 2, 1, 1, {"busyfull"}),
              Option("no", FALSE, 0, 1, 1, {"hold"}),
              Option("prio", FALSE, 1, 1, 1, {"elig"}), Option("own", FALSE, 0, 1, 1, {"elig", "cred"}),
              Option("own", FALSE, 0, 1, 1, {"mask"}), Option("own", TRUE, 0, 1, 1, {"elig", "cred", "hold"}),
              EventOption({"long", "next", "cross"}), EventOption({"long", "cross", "aside"}),
              ChaosOption(1, {"home", "back", "long", "here", "away"}, TRUE), ChaosOption(2, {"home", "long", "here"}, FALSE)}
(* Allocators that take two cycles.                                         *)
MCDelayed == {Option("no", FALSE, 1, 2, 1, {"obuf", "busyfull"}), Option("no", FALSE, 1, 1, 2, {"obuf", "busyfull"})}
=============================================================================
