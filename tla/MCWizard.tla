------------------------------ MODULE MCWizard ------------------------------
(***************************************************************************)
(* Instance of Wizard for TLC: one interface that can wake the host and    *)
(* one that cannot, a host name with an underscore, and two instances of   *)
(* Home Assistant, one of which has an https URL only.                     *)
(***************************************************************************)
EXTENDS Wizard

CONSTANTS NoFile, Torn

MCHosts == {"192.168.1.5"}
MCOddHosts == {"my_pc"}
MCMacs == {"m1"}
MCWebhookIDs == {"w1"}
MCBroadcasts == {"192.168.1.255"}
MCServers == {"ha", "ha2"}

MCHostnames == {"my_pc"}
MCCNames == {}

Card(mac, physical) ==
    [mac |-> mac, up |-> TRUE, loopback |-> FALSE, physical |-> physical,
     ips |-> {"192.168.1.5"}, broadcasts |-> {"192.168.1.255"}]
MCInterfaces == {Card("m1", TRUE), Card("m1", FALSE), Card("", TRUE)}

URL(scheme, host) == [scheme |-> scheme, host |-> host]
MCEntries ==
    {[internal |-> URL("https", "ha"), base |-> NoURL, ips |-> {"ha"}],
     [internal |-> URL("https", "ha2"), base |-> URL("ftp", "ha2"), ips |-> {}]}
MCTyped == {URL("http", "ha"), URL("", "ha")}

MCPortInputs == {0, 9000, 65536}
MCWaitInputs == {0, 2, 5, 301}
MCEditedWaits == {-1}
=============================================================================
