----------------------------- MODULE MCIeee1451 -----------------------------
(* Constants for the runs of Ieee1451.                                     *)
EXTENDS Ieee1451

(* The first TEDS of the TIM and of its channel, of the five that          *)
(* TEDSRetriever::execute() reads.                                         *)
MCTeds == <<<<0, 1>>, <<1, 3>>>>

(* Numbers far enough apart that no two connections share one, and more    *)
(* of them than the runs draw.                                             *)
MCIsns == [n \in 1..12 |-> 16 * n]

(* Sensors that disconnect between data sets, that stay connected, and     *)
(* that only answer.                                                       *)
MCModes == {[tim_im |-> TRUE,  polling |-> FALSE],
            [tim_im |-> TRUE,  polling |-> TRUE],
            [tim_im |-> FALSE, polling |-> TRUE]}

(* IEEE1451TemperatureSensor sensor(true, true) *)
MCStreaming == {[tim_im |-> TRUE, polling |-> TRUE]}

=============================================================================
