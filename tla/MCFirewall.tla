----------------------------- MODULE MCFirewall -----------------------------
EXTENDS FirewallRollback

CONSTANTS ssh, panel, ftp, vpn

MCStagePorts == {ssh, panel}
MCFtpPorts   == {ftp}
MCForeign    == {vpn}

(* ufw off with any policy, or on and letting the operator in. *)
UfwOff == [tool: {"ufw"}, rules: SUBSET {ssh, vpn}, deny: BOOLEAN,
           up: {FALSE}, file: {TRUE}]
UfwOn  == {s \in [tool: {"ufw"}, rules: SUBSET {ssh, panel, vpn},
                  deny: {TRUE}, up: {TRUE}, file: {TRUE}] : ssh \in s.rules}

(* firewalld's default zone opens the standard SSH port; a zone that was   *)
(* never changed has no file.  Off, it may lack a custom port.             *)
Firewalld == [tool: {"firewalld"}, rules: {{ssh}, {ssh, vpn}}, deny: {TRUE},
              up: BOOLEAN, file: BOOLEAN]
CustomSsh == [tool: {"firewalld"}, rules: {{}, {vpn}}, deny: {TRUE},
              up: {FALSE}, file: {TRUE}]

Any == UfwOff \cup UfwOn \cup Firewalld \cup CustomSsh
=============================================================================
