SPECIFICATION Spec
CONSTANTS
  page = page
  phone = phone
  button = button
  Web = {page, phone}
  Other = {button}
  Mux = mux
  Setup <- PageAndTerminal
INVARIANTS NeverContradicts
