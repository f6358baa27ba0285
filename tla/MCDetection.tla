---------------------------- MODULE MCDetection ----------------------------
(* Small instances of Detection.                                           *)
EXTENDS Detection, TLC

\* Two plugins claim one device, in different cases.
McPlugins == {"ipu", "nvidia", "other"}
McCompiled == {"ipu", "nvidia"}
McClaims == [p \in McPlugins |->
    CASE p = "ipu" -> {<<1, "lower">>, <<2, "lower">>}
      [] p = "nvidia" -> {<<3, "lower">>, <<4, "lower">>}
      [] p = "other" -> {<<4, "upper">>, <<5, "lower">>}]

\* The serial number is the first capability, or the second.
Cap(next, dsn) == [next |-> next, dsn |-> dsn]
SerialFirst == [len |-> 4096, caps |-> 256 :> Cap(320, TRUE) @@ 320 :> Cap(0, FALSE)]
SerialSecond == [len |-> 4096, caps |-> 256 :> Cap(320, FALSE) @@ 320 :> Cap(0, TRUE)]

\* An NVIDIA card with two ports and other cards with one.  The serial number of
\* the second NVIDIA card is where the walk does not find it.
McCards == {"bf", "bf2", "octeon", "netsec"}
McPorts == 1 .. 5
McPort == << [card |-> "bf", detector |-> "nvidia", id |-> <<3, "upper">>],
             [card |-> "bf", detector |-> "nvidia", id |-> <<3, "upper">>],
             [card |-> "octeon", detector |-> "marvell", id |-> <<7, "lower">>],
             [card |-> "netsec", detector |-> "netsec", id |-> <<2, "lower">>],
             [card |-> "bf2", detector |-> "nvidia", id |-> <<4, "lower">>] >>
McSpace == [c \in McCards |-> IF c = "bf2" THEN SerialSecond ELSE SerialFirst]
McProducts == {"none", "marvell"}
=============================================================================
