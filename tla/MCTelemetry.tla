----------------------------- MODULE MCTelemetry -----------------------------
(***************************************************************************)
(* An instance of Telemetry for TLC: a robot whose litter is watched, one  *)
(* whose hopper dispenses, and one that a cat uses.  The unit of time is   *)
(* 60 seconds, of durations too; STATE_DEDUPE is rounded up to it.          *)
(***************************************************************************)
EXTENDS Telemetry

Document(status, broken, loaded, level, cycles) ==
  [status |-> status, beam |-> broken, loaded |-> loaded, level |-> level,
   cycles |-> cycles, fault |-> None]
Level(mm) == Document("ready", FALSE, FALSE, mm, None)
Reading(register, value) == <<[register |-> register, value |-> value]>>
Gauge(raw) == Reading("dispense", 4096 + raw)
Burst(raw) == Gauge(raw) \o Reading("dispense", 266)

Bed(levels, most) ==
  [documents |-> {Level(mm) : mm \in levels}, activities |-> {}, most |-> most, until |-> most - 1]
Hopper ==
  [documents |-> {}, most |-> 8, until |-> 4,
   activities |-> {Gauge(raw) : raw \in {84, 76, 73}}
                  \cup {Reading("dispense", 266), Burst(76) \o Burst(73)}]
Cat ==
  [documents |-> {Document("ready", FALSE, FALSE, 253, 1), Document("cat_detected", TRUE, TRUE, None, 1),
                  Document("cat_sensor_timing", FALSE, FALSE, None, 1),
                  Document("clean_cycle", FALSE, FALSE, 550, 2),
                  Document(None, None, None, None, None)},
   activities |-> {Reading("duration", 1), Reading("duration", 301), Reading("weight", 8),
                   Reading("drawer", 0), Reading("fault", 1)},
   most |-> 4, until |-> 5]
MCRobots == {Bed({405, 425, 515}, 8), Bed({425, 429, 440, 531}, 5), Hopper, Cat}
=============================================================================
