------------------------------ MODULE MCGuiCapture ------------------------------
(***************************************************************************)
(* Instances of GuiCapture for TLC.                                        *)
(***************************************************************************)
EXTENDS GuiCapture

CONSTANTS web, dns, eth0, wlan0   \* kinds of packets, devices

TwoKinds == {web, dns}
WebAndDns == [kind \in TwoKinds |->
                IF kind = web THEN {"TCP", "HTTP"} ELSE {"UDP"}]
WebFilter == {{web}}
OneDevice == {eth0}
TwoDevices == {eth0, wlan0}
================================================================================
