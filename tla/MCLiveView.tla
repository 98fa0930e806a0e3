------------------------------ MODULE MCLiveView ------------------------------
EXTENDS LiveView
===============================================================================
