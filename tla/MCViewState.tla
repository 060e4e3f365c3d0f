---------------------------- MODULE MCViewState ----------------------------
(* ViewState with two instances, two lists of NAMEs and four command lines. *)
EXTENDS ViewState, TLC

CONSTANTS a, b

MCSymmetry == Permutations({a, b})

Plain == [show |-> {}, ifaces |-> <<>>, devices |-> FALSE, interval |-> NoChange,
          window |-> 30]

\* Nothing; -c -t 9s -w 9s; -i all -i eth0; -d sda -i eth0 -i all -w 2s.
MCCommandLines ==
    {Plain,
     [Plain EXCEPT !.show = {"show_cpu"}, !.interval = 90, !.window = 90],
     [Plain EXCEPT !.ifaces = <<All, "eth0">>],
     [Plain EXCEPT !.devices = TRUE, !.ifaces = <<"eth0", All>>, !.window = 20]}
=============================================================================
