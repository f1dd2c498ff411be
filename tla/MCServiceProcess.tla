-------------------------- MODULE MCServiceProcess --------------------------
(* Instances of ServiceProcess for TLC.                                    *)
EXTENDS ServiceProcess

Plain == [address |-> TRUE, timed |-> TRUE, start |-> FALSE, starter |-> "nil"]
Autostart == [Plain EXCEPT !.start = TRUE, !.starter = "systemctl"]
SomeOptions ==
    {Plain, Autostart, [Autostart EXCEPT !.timed = FALSE],
     [Autostart EXCEPT !.address = FALSE], [Autostart EXCEPT !.starter = "no systemctl"]}

=============================================================================
