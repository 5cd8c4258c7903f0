------------------------- MODULE MCConnectorReleases -------------------------
(* Two processes with the catalog of one plane: an integration with a few     *)
(* definitions, or two apps of which a scan takes up one at a time.           *)
EXTENDS ConnectorReleases
===============================================================================
