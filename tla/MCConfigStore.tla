---------------------------- MODULE MCConfigStore ----------------------------
(***************************************************************************)
(* ConfigStore for TLC: keys of each kind, lengths and numbers around      *)
(* every limit.                                                            *)
(***************************************************************************)
EXTENDS ConfigStore, TLC

Str(n) == [len |-> n, num |-> 0, clean |-> FALSE]
Num(n) == [len |-> 2, num |-> n, clean |-> TRUE]

MCTouched == {"wifi1ssid", "wifi1pass", "sniffms", "ledbrightness"}

\* 2^30 values of a word are what TLC can count: its halves are 2^29.
MCTexts == {Str(3), Str(33), Num(-1), Num(256), Num(2 ^ 30)}

Cfg(k, t) == [op |-> "CFG", key |-> k, text |-> t]
Line(n, says, tail) == [len |-> n, says |-> says, tail |-> tail]
Nothing == [op |-> "other"]

MCLines ==
    {Line(20, Cfg(c[1], c[2]), Nothing) :
        c \in ({"wifi1ssid"} \X {Str(0), Str(32), Str(33)})
              \cup ({"wifi1pass"} \X {Str(63), Str(65)})
              \cup ({"connmode"} \X {Num(0), Num(256)})
              \cup ({"sniffms"} \X {Num(-1), Num(499), Num(2 ^ 29)})
              \cup ({"ledbrightness"} \X {Num(1)})}
    \cup {Line(6, [op |-> "REBOOT"], Nothing)}
    \cup {Line(n, Cfg("mqtturi", Str(n - 12)), tail) :
            n \in {127, 128, 129}, tail \in {Nothing, [op |-> "REBOOT"], Cfg("nodeid", Str(10))}}

MCFlashes == {<<>>, ("connmode" :> 1), ("connmode" :> 2) @@ ("wifi2ssid" :> 3),
              ("connmode" :> 1) @@ ("sniffmode" :> 0) @@ ("wifi1ssid" :> 3) @@ ("nodeid" :> 63)}
=============================================================================
