--------------------------- MODULE MCCaptivePortal ---------------------------
(* Two zones with two sessions, and a call to preview and one to confirm.     *)
EXTENDS CaptivePortal

MCTool == {"captiveportal_session_disconnect_zone"}
MCArgs == [zone_id : Zone]
=============================================================================
