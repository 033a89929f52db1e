------------------------------- MODULE Arguments -------------------------------
(***************************************************************************)
(* parse_arguments of src/main.c: from the options getopt_long delivers to *)
(* the configuration.  An option is [opt, val]; val is what strtol or      *)
(* strtoul makes of its argument, an integer wider than the field it is    *)
(* stored in.  Names and paths are left out.                               *)
(***************************************************************************)
EXTENDS Integers, Sequences, PdTypes

CONSTANTS UintSize  \* 2 ^ 32 in the code

ASSUME ArgumentsAssumption == UintSize \in Nat /\ UintSize > 5

Uint32(x) == x % UintSize

Int32(x) == IF 2 * Uint32(x) < UintSize THEN Uint32(x) ELSE Uint32(x) - UintSize

\* init_default_config
DefaultConfig ==
    [rssi_cutoff |-> DefaultRssiCutoff, window |-> DefaultWindow, interval |-> DefaultInterval,
     ttl |-> DefaultTtl, verbose |-> FALSE, json |-> FALSE, replay |-> FALSE,
     loop |-> FALSE, ble |-> TRUE, wifi |-> TRUE]

\* Mutant: the interval is tested for 0 before it is cut to its width.
IntervalOfWide(x) == Uint32(IF x = 0 THEN 1 ELSE x)

IntervalOf(x) == IF Uint32(x) = 0 THEN 1 ELSE Uint32(x)

\* One round of the loop: rc is 0 until an option ends it.
WithOption(parsed, o) ==
    IF parsed.rc # 0 THEN parsed
    ELSE CASE o.opt = "rssi-cutoff" -> [parsed EXCEPT !.cfg.rssi_cutoff = Int32(o.val)]
           [] o.opt = "window" -> [parsed EXCEPT !.cfg.window = Uint32(o.val)]
           [] o.opt = "interval" -> [parsed EXCEPT !.cfg.interval = IntervalOf(o.val)]
           [] o.opt = "ttl" -> [parsed EXCEPT !.cfg.ttl = Uint32(o.val)]
           [] o.opt = "json-out" -> [parsed EXCEPT !.cfg.json = TRUE]
           [] o.opt = "replay" -> [parsed EXCEPT !.cfg.replay = TRUE]
           [] o.opt = "replay-loop" -> [parsed EXCEPT !.cfg.loop = TRUE]
           [] o.opt = "no-ble" -> [parsed EXCEPT !.cfg.ble = FALSE]
           [] o.opt = "no-wifi" -> [parsed EXCEPT !.cfg.wifi = FALSE]
           [] o.opt = "verbose" -> [parsed EXCEPT !.cfg.verbose = TRUE]
           [] o.opt = "help" -> [parsed EXCEPT !.rc = 1]
           [] o.opt = "ble-dev" -> parsed
           [] o.opt = "wifi-iface" -> parsed
           [] OTHER -> [parsed EXCEPT !.rc = -1]

ParseArguments(options) ==
    LET parsed[n \in 0 .. Len(options)] ==
            IF n = 0 THEN [rc |-> 0, cfg |-> DefaultConfig]
            ELSE WithOption(parsed[n - 1], options[n])
    IN parsed[Len(options)]

\* The part of a configuration that the threads and the loop look at; lost says
\* that the recording cannot be opened.  A line that ends in usage starts nothing.
Started(options, lost) ==
    LET parsed == ParseArguments(options)
    IN IF parsed.rc # 0 THEN {}
       ELSE {[replay |-> parsed.cfg.replay, loop |-> parsed.cfg.loop, ble |-> parsed.cfg.ble,
              wifi |-> parsed.cfg.wifi, interval |-> parsed.cfg.interval, lost |-> lost]}
================================================================================
