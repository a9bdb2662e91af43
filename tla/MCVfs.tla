--------------------------------- MODULE MCVfs ---------------------------------
(***************************************************************************)
(* Vfs with one device, names in the root (which is full), in /bin and in   *)
(* the covered /dev, and paths that lead through a file and a device.       *)
(***************************************************************************)
EXTENDS Vfs

MCDevices == <<"keyboard">>

MCPaths == {<<>>, <<"f">>, <<"bin", "init.elf">>, <<"bin", "f">>, <<"bin", "f", "g">>,
            <<"dev", "keyboard">>, <<"dev", "keyboard", "g">>, <<"dev", "f">>}
=============================================================================
