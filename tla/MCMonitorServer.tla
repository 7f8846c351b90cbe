--------------------------- MODULE MCMonitorServer ---------------------------
(***************************************************************************)
(* Two device connections, one HTTP client and two descriptors: a          *)
(* descriptor can be used again by a device or by the HTTP client, and the *)
(* descriptors can run out.  The runs about liveness have one device.      *)
(***************************************************************************)
EXTENDS MonitorServer

CONSTANTS d1, d2, h1

MCDevices == {d1, d2}
MCOneDevice == {d1}
MCRequests == {h1}
MCDescriptors == 1..2
MCEnvironments == {{"http"}, {"reset"}, {"http", "midline", "reset"}}
MCHttp == {{"http"}}
MCResets == {{"reset"}}
=============================================================================
