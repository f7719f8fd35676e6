---------------------------- MODULE KernelParts ----------------------------
(***************************************************************************)
(* What the tasks share below the application, checked side by side: the   *)
(* kernel and the sockets, on which they wait for each other, and the list *)
(* of timeouts in memory, which two of them change.  The first state       *)
(* chooses one layer, which then runs by itself.                           *)
(***************************************************************************)
EXTENDS OsKernel, SocketApi, TimeoutCells

CONSTANT Layers

VARIABLE layer

LayersInit ==
  /\ layer \in Layers /\ KernelInit /\ SocketInit /\ CellsInit
  /\ layer # "kernel" => using = CHOOSE a \in Apps : TRUE
  /\ layer # "sockets" => program = CHOOSE p \in Programs : TRUE

KernelLayer == layer = "kernel" /\ KernelNext /\ UNCHANGED <<layer, socketVars, cellVars>>
SocketLayer == layer = "sockets" /\ SocketNext /\ UNCHANGED <<layer, kernelVars, cellVars>>
CellsLayer == layer = "cells" /\ CellsNext /\ UNCHANGED <<layer, kernelVars, socketVars>>

LayersNext == KernelLayer \/ SocketLayer \/ CellsLayer

layersVars == <<layer, kernelVars, socketVars, cellVars>>

LayersSpec == LayersInit /\ [][LayersNext]_layersVars

(* The tables of the kernel, and the netconns, descriptors and lists of    *)
(* the sockets, have their types.                                          *)
LayersTypeOK == layer \in Layers /\ KernelTypeOK /\ SocketTypeOK
=============================================================================
