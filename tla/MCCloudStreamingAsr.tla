------------------------ MODULE MCCloudStreamingAsr ------------------------
(* One session whose connection may break at any moment.                                  *)
EXTENDS CloudStreamingAsr
=============================================================================
