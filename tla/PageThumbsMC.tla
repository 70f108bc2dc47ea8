---------------------------- MODULE PageThumbsMC ----------------------------
\* Small fleets for the thumbnails of the page.
EXTENDS PageThumbs

FleetTiles == <<"aft", "bow", "keel">>
=============================================================================
