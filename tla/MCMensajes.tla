----------------------------- MODULE MCMensajes -----------------------------
(* Mensajes with two DHCP servers, one of which announces neither a gateway *)
(* nor a name server, and sessions of up to three calls.                    *)
EXTENDS Mensajes

CONSTANTS s1, s2
PuertaMC == [s \in {s1, s2} |-> IF s = s1 THEN Puerta ELSE Nadie]
DnsMC == PuertaMC
GuionesMC ==
  {<<"dhcp", "dhcp">>, <<"dhcp", "ping">>, <<"dhcp", "http">>, <<"http">>, <<"ip", "telemetria">>, <<"recibir", "recibir">>,
   <<"recibir", "destino", "recibir">>, <<"transmitir", "transmitir">>}
=============================================================================
